---- MODULE Spec2Model ----
(***************************************************************************)
(* Agario multiplayer game: the authoritative server engine (createGame,  *)
(* its action queue, step and loop control) and the client split/merge    *)
(* system, as state machines.                                             *)
(*                                                                        *)
(* Numbers.  The code computes in IEEE doubles; the model computes in     *)
(* fixed point:                                                           *)
(*   - a length (x, y, radius) is an integer count of 1/Res world units;  *)
(*   - a velocity is an integer count of world units per second;          *)
(*   - a mass is an integer count of 1/MassUnit mass units, so that       *)
(*     every halving a bounded run can perform is exact;                  *)
(*   - a time is an integer count of milliseconds.                        *)
(* Math.PI is 355/113.                                                    *)
(***************************************************************************)
EXTENDS Integers, Sequences, FiniteSets, TLC

(***************************************************************************)
(* Bounds of the model                                                    *)
(***************************************************************************)
MaxEnqueue == 3
MaxTick == 2
MaxStarts == 2
MaxClockSteps == 2
MaxMessages == 3
MaxPublishTick == 51
MaxChecks == 6
MaxRateClockSteps == 3
MaxRoomObjects == 3
MaxFrames == 2
MaxWallTick == 4

(***************************************************************************)
(* Program constants                                                      *)
(***************************************************************************)
tickHz == 10
worldWidth == 2000
worldHeight == 2000
INITIAL_PLAYER_MASS == 100
MIN_SPEED == 18
MAX_SPEED == 220
minServerSplitMass == 50
fragmentLifetime == 30000
idleTimeout == 120000

Res == tickHz * 1
MassUnit == 2 ^ MaxEnqueue
T0 == 1000

(***************************************************************************)
(* JavaScript values                                                      *)
(***************************************************************************)
Undefined == "undefined"
NoId == <<"undefined", 0>>
EmptyId == <<"", 0>>
NoDir == <<>>
NoTimer == 0
NoCallback == "undefined"

FirstPlayer == <<"player", 1>>
SecondPlayer == <<"player", 2>>
PlayerIds == {FirstPlayer, SecondPlayer}
Uuid(n) == <<"uuid", n>>

TruthyStr(s) == s \notin {Undefined, ""}
TruthyId(i) == i \notin {NoId, EmptyId}

(***************************************************************************)
(* Arithmetic helpers                                                     *)
(***************************************************************************)
Max(a, b) == IF a >= b THEN a ELSE b
Min(a, b) == IF a <= b THEN a ELSE b

\* a / b truncated toward zero, b > 0
TruncDiv(a, b) == IF a >= 0 THEN a \div b ELSE -((-a) \div b)

RECURSIVE ISqrtBS(_, _, _)
ISqrtBS(n, lo, hi) ==
    IF lo >= hi THEN lo
    ELSE LET mid == (lo + hi + 1) \div 2
         IN IF mid * mid <= n THEN ISqrtBS(n, mid, hi) ELSE ISqrtBS(n, lo, mid - 1)

\* floor(sqrt(n)) for 0 <= n < 2^31
ISqrt(n) == ISqrtBS(n, 0, 46340)

\* Math.round of a / b, b > 0: the nearest integer, halves upward
RoundDiv(a, b) == (2 * a + b) \div (2 * b)

(***************************************************************************)
(* physics.js                                                             *)
(***************************************************************************)
\* radiusFromMass: sqrt(mass / PI), 0 for mass <= 0; mass in 1/MassUnit, result in 1/Res
radiusFromMass(mass) ==
    IF mass <= 0 THEN 0
    ELSE ISqrt((mass * Res * Res * 113) \div (MassUnit * 355))

\* vMaxFromMass: clamp(220 / mass^(1/4), 18, 220)
vMaxFromMass(mass) ==
    IF mass <= 0 THEN MAX_SPEED
    ELSE LET root2 == ISqrt((mass * 10000) \div MassUnit)   \* 100 * sqrt(m)
             root4 == ISqrt(root2 * 100)                    \* 100 * m^(1/4)
             baseSpeed == (MAX_SPEED * 100) \div Max(root4, 1)
         IN Max(MIN_SPEED, Min(MAX_SPEED, baseSpeed))

\* applyDamping(velocity, 0.98)
applyDamping(velocity) == TruncDiv(velocity * 98, 100)

\* checkCollision: distance(centres) < radius1 + radius2
checkCollision(entity1, entity2) ==
    LET dx == entity2.x - entity1.x
        dy == entity2.y - entity1.y
        minDistance == entity1.radius + entity2.radius
    IN dx * dx + dy * dy < minDistance * minDistance

\* normalize: components in 1/1000; the zero vector stays zero
normalize(dir) ==
    LET m2 == dir[1] * dir[1] + dir[2] * dir[2]
        magnitude == ISqrt(m2 * 1000000)
    IN IF m2 = 0 THEN <<0, 0>>
       ELSE <<TruncDiv(dir[1] * 1000000, magnitude), TruncDiv(dir[2] * 1000000, magnitude)>>

\* the position is kept off the low walls only
clampToWorldLowOnly(position, radius) ==
    [x |-> Max(radius, position.x), y |-> Max(radius, position.y)]

\* clampToWorld(position, radius, worldBounds)
clampToWorld(position, radius) ==
    [x |-> Max(radius, Min(worldWidth * Res - radius, position.x)),
     y |-> Max(radius, Min(worldHeight * Res - radius, position.y))]

\* integratePosition(entity, deltaTime), deltaTime = 1 / tickHz
integratePosition(entity) ==
    [x |-> entity.x + TruncDiv(entity.vx * Res, tickHz),
     y |-> entity.y + TruncDiv(entity.vy * Res, tickHz)]

canEatOrEqual(predator, prey) == 10 * predator.mass >= 11 * prey.mass

\* canEat: predator.mass > prey.mass * 1.1
canEat(predator, prey) == 10 * predator.mass > 11 * prey.mass

calculateNewMassLossy(predatorMass, preyMass) == predatorMass + (preyMass * 8) \div 10

\* calculateNewMass(predatorMass, preyMass, efficiency = 1.0)
calculateNewMass(predatorMass, preyMass) == predatorMass + preyMass


(***************************************************************************)
(* State of one server game instance (createGame)                         *)
(***************************************************************************)
VARIABLES
    entities,          \* gameState.entities: the Map, as its values in insertion order
    actionQueue,       \* gameState.actionQueue
    isRunning,         \* gameState.isRunning
    currentTick,       \* gameState.currentTick
    stats,             \* gameState.stats
    gameLoopInterval,  \* the handle startLoop keeps, NoTimer for null
    onUpdateCallback,  \* the callback startLoop keeps
    timers,            \* the runtime's registered interval timers (setInterval / clearInterval)
    now,               \* Date.now()
    pc,                \* where the running step() is; "idle" between steps
    processedCount,    \* processActionQueue's local counter
    ci, cj,            \* processCollisions' loop indices i and j
    nextUid,           \* identity of the next accepted action object
    nextUuid,          \* the next value of uuidv4()
    nextTimer,         \* the next handle setInterval returns
    clockSteps,        \* how many times the clock has advanced
    accepted,          \* history: the actions enqueueAction accepted, in order
    applied,           \* history: the actions handed to processAction, in order
    phaseLog,          \* history: the phases the current or last step has run
    lastOp,            \* history: the last call (an API call or step), its argument and its result
    deltas,            \* history: the deltas handed to the update callback
    inputSeen          \* history: per player id, when its last input action was processed

(***************************************************************************)
(* State of one client engine (PhysicsEngine with its SpatialHashGrid,    *)
(* and the SplitMergeSystem built on it)                                  *)
(***************************************************************************)
VARIABLES
    physicsEngine,     \* PhysicsEngine: entities (the Map, as its values in insertion
                       \* order) and spatialGrid (grid and entityCells)
    playerSplits,      \* SplitMergeSystem.playerSplits: the Map, as a function on its keys
    lastSplitTime,     \* SplitMergeSystem.lastSplitTime: the Map, as a function on its keys
    clientNow,         \* Date.now() on the client
    clientOp           \* history: the last client call, the id it was for and its result

cvars == <<physicsEngine, playerSplits, lastSplitTime, clientNow, clientOp>>

svars == <<entities, actionQueue, isRunning, currentTick, stats, gameLoopInterval,
           onUpdateCallback, timers, now, pc, processedCount, ci, cj, nextUid, nextUuid,
           nextTimer, clockSteps, accepted, applied, phaseLog, lastOp, deltas, inputSeen>>

(***************************************************************************)
(* State of the server process around the games (serverState, the rooms   *)
(* and their Realtime channels)                                           *)
(***************************************************************************)
VARIABLES
    rateLimits,        \* serverState.rateLimits: the Map, as a function on its keys
    sent,              \* history: what room.channel.send was given, in order, per room
    lastActivity,      \* room.lastActivity, per room
    peerQueue,         \* the action queue of the game of the second room
    received,          \* how many player_action broadcasts the listeners were handed
    handled,           \* history: the last handlePlayerAction call, the checks it ran
                       \* and whether it reached enqueueAction
    admitted           \* history: per player id, the times checkRateLimit returned true

\* the rooms ensureRoom makes
VARIABLES
    roomObjects,       \* every room createRoomData made, by identity, with its game's
                       \* loop and its channel
    storedRooms,       \* serverState.rooms: the Map, from a room id to a room's identity
    ensureCalls        \* the ensureRoom calls suspended at await room.channel.subscribe,
                       \* each by the identity of the room it made

rvars == <<roomObjects, storedRooms, ensureCalls>>

(***************************************************************************)
(* The client's GameEngine: its loop on the browser's animation frames    *)
(***************************************************************************)
VARIABLES
    engineIsRunning,   \* GameEngine.isRunning
    lastFrameTime,     \* GameEngine.lastFrameTime
    lastUpdate,        \* PhysicsEngine.lastUpdate
    pendingFrames,     \* the gameLoop callbacks requestAnimationFrame holds for the next frame
    frameBatch,        \* the callbacks of the frame being run that have not run yet
    updatesInFrame,    \* history: the updateGame calls of the frame being run or last run
    engineStarts       \* history: the start() calls that started the loop

lvars == <<engineIsRunning, lastFrameTime, lastUpdate, pendingFrames, frameBatch,
           updatesInFrame, engineStarts>>

bvars == <<rateLimits, sent, lastActivity, peerQueue, received, handled, admitted, rvars,
           lvars>>

vars == <<svars, cvars, bvars>>

(***************************************************************************)
(* Inputs                                                                 *)
(***************************************************************************)
\* where generateRandomPosition may put a player, in world units
SpawnPositions == {<<100, 100>>, <<110, 100>>}
SpawnOrigin == {<<100, 100>>}

NullAction == [isNull |-> TRUE, type |-> Undefined, playerId |-> NoId, data |-> NoDir]

MkAction(t, p, d) == [isNull |-> FALSE, type |-> t, playerId |-> p, data |-> d]

\* null, no type, an empty type, no playerId, an empty playerId
MalformedActions ==
    {NullAction} \cup {MkAction(t, FirstPlayer, NoDir) : t \in {Undefined, ""}}
                 \cup {MkAction("input", p, NoDir) : p \in {NoId, EmptyId}}

\* the action kinds of the protocol, for two actors
LoopActions ==
    {MkAction("input", p, <<1, 0>>) : p \in {FirstPlayer, SecondPlayer}}
    \cup {MkAction(t, FirstPlayer, NoDir) : t \in {"split", "ability", "orb_collect", "spawn"}}

ArenaActions ==
    {MkAction("split", p, NoDir) : p \in PlayerIds}
    \cup {MkAction("input", FirstPlayer, <<1, 0>>)}

Callbacks == {"publishA", "publishB"}

(***************************************************************************)
(* Maps keyed by an id or by a cell                                       *)
(***************************************************************************)
EmptyMap == [k \in {} |-> 0]
MapGet(map, key, default) == IF key \in DOMAIN map THEN map[key] ELSE default
MapSet(map, key, value) ==
    [k \in DOMAIN map \cup {key} |-> IF k = key THEN value ELSE map[k]]
MapDelete(map, key) == [k \in DOMAIN map \ {key} |-> map[k]]

(***************************************************************************)
(* The server process around the games: rooms, configuration, the schema  *)
(* of a player action, rate limiting and publishing                       *)
(***************************************************************************)
\* Two rooms.  RoomA is the room whose game is the game above; of the game of
\* RoomB the model keeps the action queue, which is all a player action reaches.
RoomA == "roomA"
RoomB == "roomB"
Rooms == {RoomA, RoomB}
NoRoom == "undefined"

\* the callback ensureRoom gives startLoop is the room's closure
\* (deltaPayload) => publishWorldUpdate(room, deltaPayload)
RoomOf(callback) == IF callback = "publishB" THEN RoomB ELSE RoomA

\* CONFIG.maxPayloadSize
maxPayloadSize == 8192
\* CONFIG.maxMsgsPerSecond is parseInt(process.env.MAX_MSGS_PER_SECOND) || 20;
\* the server runs with MAX_MSGS_PER_SECOND=2
maxMsgsPerSecond == 2
\* checkRateLimit's window and the time it blocks for
windowMs == 1000
blockedFor == 3000
\* publishWorldUpdate's snapshot period, in ticks
snapshotTicks == 50

\* what a player_action broadcast carries as payload.payload: undefined, null, or
\* an object with some of type, playerId, ts, data and perhaps a property more.
\*   type      a string, Undefined when the property is missing
\*   playerId  a string, NoId when the property is missing
\*   tsType    typeof ts; ts its value when a number
\*   dataType  typeof data; data its dir when an object, pad the length of a
\*             filler string it carries besides (0 for none)
\*   extra     whether the object has the property admin: true
LongId == <<"long", 101>>

MkPayload(t, p, tsType, dataType, d, pad, extra) ==
    [kind |-> "object", type |-> t, playerId |-> p, tsType |-> tsType, ts |-> T0,
     dataType |-> dataType, data |-> d, pad |-> pad, extra |-> extra]

NullPayload ==
    [kind |-> "null", type |-> Undefined, playerId |-> NoId, tsType |-> "undefined",
     ts |-> 0, dataType |-> "undefined", data |-> NoDir, pad |-> 0, extra |-> FALSE]

UndefinedPayload == [NullPayload EXCEPT !.kind = "undefined"]

\* the action object the game is handed
ActionOf(payload) == MkAction(payload.type, payload.playerId, payload.data)

RECURSIVE Digits(_)
Digits(n) == IF n < 10 THEN 1 ELSE 1 + Digits(n \div 10)

\* String(n).length
numberLength(n) == IF n < 0 THEN 1 + Digits(-n) ELSE Digits(n)

\* type.length
typeLength(t) ==
    CASE t \in {"input", "split", "spawn"} -> 5
      [] t = "ability" -> 7
      [] t = "orb_collect" -> 11
      [] OTHER -> 0

\* playerId.length: "player1" has seven characters
idLength(id) ==
    CASE id = EmptyId -> 0
      [] id[1] = "long" -> id[2]
      [] OTHER -> 6 + Digits(id[2])

RECURSIVE SumSeq(_)
SumSeq(seq) == IF seq = <<>> THEN 0 ELSE Head(seq) + SumSeq(Tail(seq))

\* the length of {...} around properties of these lengths, 0 for a missing one
objectLength(properties) ==
    LET present == SelectSeq(properties, LAMBDA n : n > 0)
    IN 2 + SumSeq(present) + (IF present = <<>> THEN 0 ELSE Len(present) - 1)

\* JSON.stringify(action).length, for an action that is not undefined
jsonLength(payload) ==
    IF payload.kind = "null" THEN 4
    ELSE LET dir == IF payload.data = NoDir THEN 0       \* "dir":{"x":1,"y":0}
                    ELSE 6 + objectLength(<<4 + numberLength(payload.data[1]),
                                            4 + numberLength(payload.data[2])>>)
             pad == IF payload.pad = 0 THEN 0 ELSE 8 + payload.pad    \* "pad":"..."
         IN objectLength(<<
                IF payload.type = Undefined THEN 0 ELSE 9 + typeLength(payload.type),
                IF payload.playerId = NoId THEN 0 ELSE 13 + idLength(payload.playerId),
                CASE payload.tsType = "number" -> 5 + numberLength(payload.ts)
                  [] payload.tsType = "string" -> 10                    \* "ts":"abc"
                  [] OTHER -> 0,
                CASE payload.dataType = "object" -> 7 + objectLength(<<dir, pad>>)
                  [] payload.dataType = "number" -> 8                   \* "data":7
                  [] OTHER -> 0,
                IF payload.extra THEN 12 ELSE 0>>)                      \* "admin":true

\* validatePlayerAction = ajv.compile(playerActionSchema)
validatePlayerAction(payload) ==
    /\ payload.kind = "object"
    /\ payload.type \in {"input", "ability", "split", "orb_collect"}
    /\ payload.playerId # NoId
    /\ idLength(payload.playerId) >= 1
    /\ idLength(payload.playerId) <= 100
    /\ payload.tsType = "number"
    /\ payload.dataType \in {"object", "undefined"}
    /\ ~payload.extra

\* checkRateLimit with a window one millisecond short
checkRateLimitShortWindow(limits, playerId, time) ==
    LET created == IF playerId \in DOMAIN limits THEN limits
                   ELSE MapSet(limits, playerId, [messages |-> <<>>, blockedUntil |-> 0])
        playerLimits == created[playerId]
        recent == SelectSeq(playerLimits.messages, LAMBDA ts : time - ts < windowMs - 1)
    IN IF playerLimits.blockedUntil > time
       THEN [rateLimits |-> created, ret |-> FALSE]
       ELSE IF Len(recent) >= maxMsgsPerSecond
            THEN [rateLimits |-> MapSet(created, playerId,
                                        [messages |-> recent,
                                         blockedUntil |-> time + blockedFor]),
                  ret |-> FALSE]
            ELSE [rateLimits |-> MapSet(created, playerId,
                                        [messages |-> Append(recent, time),
                                         blockedUntil |-> playerLimits.blockedUntil]),
                  ret |-> TRUE]

\* checkRateLimit(playerId) at Date.now() = time: the Map afterwards and the result
checkRateLimit(limits, playerId, time) ==
    LET created == IF playerId \in DOMAIN limits THEN limits
                   ELSE MapSet(limits, playerId, [messages |-> <<>>, blockedUntil |-> 0])
        playerLimits == created[playerId]
        recent == SelectSeq(playerLimits.messages, LAMBDA ts : time - ts < windowMs)
    IN IF playerLimits.blockedUntil > time
       THEN [rateLimits |-> created, ret |-> FALSE]
       ELSE IF Len(recent) >= maxMsgsPerSecond
            THEN [rateLimits |-> MapSet(created, playerId,
                                        [messages |-> recent,
                                         blockedUntil |-> time + blockedFor]),
                  ret |-> FALSE]
            ELSE [rateLimits |-> MapSet(created, playerId,
                                        [messages |-> Append(recent, time),
                                         blockedUntil |-> playerLimits.blockedUntil]),
                  ret |-> TRUE]

\* what the channel is given: room.channel.send({type: 'broadcast', event, payload})
Broadcast(room, event, payload) == [room |-> room, event |-> event, payload |-> payload]

\* publishWorldUpdate sending the snapshot ahead of the delta
publishWorldUpdateSnapshotFirst(room, deltaPayload) ==
    (IF deltaPayload.tick % snapshotTicks = 0
     THEN <<Broadcast(room, "world_update", [deltaPayload EXCEPT !.kind = "snapshot"])>>
     ELSE <<>>)
    \o <<Broadcast(room, "world_update", deltaPayload)>>

\* publishWorldUpdate(room, deltaPayload): the messages it sends, in order
publishWorldUpdate(room, deltaPayload) ==
    <<Broadcast(room, "world_update", deltaPayload)>>
    \o (IF deltaPayload.tick % snapshotTicks = 0
        THEN <<Broadcast(room, "world_update", [deltaPayload EXCEPT !.kind = "snapshot"])>>
        ELSE <<>>)

(***************************************************************************)
(* The entity Map                                                         *)
(***************************************************************************)
Ids(ents) == {ents[k].id : k \in 1..Len(ents)}
Has(ents, id) == id \in Ids(ents)
IndexOf(ents, id) == CHOOSE k \in 1..Len(ents) : ents[k].id = id
Get(ents, id) == ents[IndexOf(ents, id)]
SelectEnts(ents, Keep(_)) == SelectSeq(ents, Keep)

\* createEntity(config): radius is derived from mass, timestamps are Date.now()
createEntity(id, type, ownerId, x, y, vx, vy, mass, lifetime) ==
    [id |-> id, type |-> type, ownerId |-> ownerId, x |-> x, y |-> y, vx |-> vx, vy |-> vy,
     mass |-> mass, radius |-> radiusFromMass(mass), isAlive |-> TRUE, killedBy |-> NoId,
     createdAt |-> now, lastInputTime |-> now, lifetime |-> lifetime]

InitStats == [totalPlayers |-> 0, activePlayers |-> 0, pelletsCount |-> 0, actionsProcessed |-> 0]

Init ==
    /\ entities = <<>>
    /\ actionQueue = <<>>
    /\ isRunning = FALSE
    /\ currentTick = 0
    /\ stats = InitStats
    /\ gameLoopInterval = NoTimer
    /\ onUpdateCallback = NoCallback
    /\ timers = {}
    /\ now = T0
    /\ pc = "idle"
    /\ processedCount = 0
    /\ ci = 0
    /\ cj = 0
    /\ nextUid = 1
    /\ nextUuid = 1
    /\ nextTimer = 1
    /\ clockSteps = 0
    /\ accepted = <<>>
    /\ applied = <<>>
    /\ phaseLog = <<>>
    /\ lastOp = [op |-> "createGame", uid |-> 0, arg |-> NullAction, ret |-> TRUE]
    /\ deltas = <<>>
    /\ inputSeen = EmptyMap
    /\ rateLimits = EmptyMap
    /\ admitted = EmptyMap
    /\ roomObjects = <<>>
    /\ storedRooms = EmptyMap
    /\ ensureCalls = {}
    /\ engineIsRunning = FALSE
    /\ lastFrameTime = 0
    /\ lastUpdate = T0
    /\ pendingFrames = 0
    /\ frameBatch = 0
    /\ updatesInFrame = 0
    /\ engineStarts = 0
    /\ sent = <<>>
    /\ lastActivity = [room \in Rooms |-> T0]
    /\ peerQueue = <<>>
    /\ received = 0
    /\ handled = [room |-> NoRoom, action |-> NullPayload, checks |-> <<>>, enqueued |-> FALSE]
    /\ physicsEngine = [entities |-> <<>>,
                        spatialGrid |-> [grid |-> EmptyMap, entityCells |-> EmptyMap]]
    /\ playerSplits = EmptyMap
    /\ lastSplitTime = EmptyMap
    /\ clientNow = T0
    /\ clientOp = [op |-> "constructor", id |-> NoId, ret |-> TRUE]


(***************************************************************************)
(* Action processing                                                      *)
(***************************************************************************)
\* The part of the game state an action can change.
GS(ents, total, uuid) == [entities |-> ents, totalPlayers |-> total, nextUuid |-> uuid]

\* addPlayer past its first test: create the player, store it, count it
newPlayer(gs, playerId, pos) ==
    [gs EXCEPT
       !.entities = Append(@, createEntity(playerId, "player", NoId,
                                           pos[1] * Res, pos[2] * Res, 0, 0,
                                           INITIAL_PLAYER_MASS * MassUnit, 0)),
       !.totalPlayers = @ + 1]

addPlayerUnchecked(gs, playerId, pos) == newPlayer(gs, playerId, pos)

\* addPlayer(playerId): an existing id is returned as it is; pos is the outcome
\* of generateRandomPosition
addPlayer(gs, playerId, pos) ==
    IF Has(gs.entities, playerId) THEN gs ELSE newPlayer(gs, playerId, pos)

\* the velocity is set and lastInputTime is left as it was
processInputActionUnstamped(entity, inputData) ==
    IF inputData = NoDir THEN entity
    ELSE LET direction == normalize(inputData)
             maxSpeed == vMaxFromMass(entity.mass)
         IN [entity EXCEPT !.vx = TruncDiv(direction[1] * maxSpeed, 1000),
                           !.vy = TruncDiv(direction[2] * maxSpeed, 1000)]

\* processInputAction(entity, inputData)
processInputAction(entity, inputData) ==
    IF inputData = NoDir THEN entity
    ELSE LET direction == normalize(inputData)
             maxSpeed == vMaxFromMass(entity.mass)
         IN [entity EXCEPT !.vx = TruncDiv(direction[1] * maxSpeed, 1000),
                           !.vy = TruncDiv(direction[2] * maxSpeed, 1000),
                           !.lastInputTime = now]

\* the fragment is created and the entity keeps its mass
processSplitActionKeepMass(gs, k) ==
    LET entity == gs.entities[k]
        fragment == createEntity(Uuid(gs.nextUuid), "fragment", entity.id,
                                 entity.x + entity.radius * 2, entity.y, 0, 0,
                                 entity.mass \div 2, fragmentLifetime)
    IN IF entity.mass < minServerSplitMass * MassUnit THEN gs
       ELSE [gs EXCEPT !.entities = Append(@, fragment), !.nextUuid = @ + 1]

\* processSplitAction(entity, splitData), entity = gs.entities[k]
processSplitAction(gs, k) ==
    LET entity == gs.entities[k]
        newMass == entity.mass \div 2
        halved == [entity EXCEPT !.mass = newMass, !.radius = radiusFromMass(newMass)]
        fragment == createEntity(Uuid(gs.nextUuid), "fragment", entity.id,
                                 halved.x + halved.radius * 2, halved.y,
                                 TruncDiv(halved.vx * 3, 2), TruncDiv(halved.vy * 3, 2),
                                 newMass, fragmentLifetime)
    IN IF entity.mass < minServerSplitMass * MassUnit THEN gs
       ELSE [gs EXCEPT !.entities = Append([@ EXCEPT ![k] = halved], fragment),
                       !.nextUuid = @ + 1]

\* processAction(action)
processAction(gs, action, pos) ==
    IF ~Has(gs.entities, action.playerId)
    THEN IF action.type \in {"input", "spawn"}
         THEN addPlayer(gs, action.playerId, pos)
         ELSE gs
    ELSE LET k == IndexOf(gs.entities, action.playerId)
         IN CASE action.type = "input" ->
                   [gs EXCEPT !.entities[k] = processInputAction(@, action.data)]
              [] action.type = "split" -> processSplitAction(gs, k)
              [] OTHER -> gs   \* ability, orb_collect: stubs; anything else: a warning

(***************************************************************************)
(* Public API                                                             *)
(***************************************************************************)
Idle == pc = "idle"

\* enqueueAction's test: !action || !action.type || !action.playerId
invalidTypeOnly(action) == action.isNull \/ ~TruthyStr(action.type)
invalidAction(action) ==
    action.isNull \/ ~TruthyStr(action.type) \/ ~TruthyId(action.playerId)

\* enqueueAction(action), on the state of the game
enqueueAction(action) ==
    /\ Idle
    /\ nextUid <= MaxEnqueue
    /\ IF invalidAction(action)
       THEN /\ lastOp' = [op |-> "enqueueAction", uid |-> 0, arg |-> action, ret |-> FALSE]
            /\ UNCHANGED <<actionQueue, accepted, nextUid>>
       ELSE /\ nextUid' = nextUid + 1
            /\ actionQueue' = Append(actionQueue,
                                     [type |-> action.type, playerId |-> action.playerId,
                                      data |-> action.data, uid |-> nextUid,
                                      serverTimestamp |-> now, targetTick |-> currentTick + 1])
            /\ accepted' = Append(accepted, nextUid)
            /\ lastOp' = [op |-> "enqueueAction", uid |-> nextUid, arg |-> action, ret |-> TRUE]
    /\ UNCHANGED <<entities, isRunning, currentTick, stats, gameLoopInterval, onUpdateCallback,
                   timers, now, pc, processedCount, ci, cj, nextUuid, nextTimer, clockSteps,
                   applied, phaseLog, deltas>>
    /\ UNCHANGED cvars
    /\ UNCHANGED inputSeen

\* enqueueAction(action) called on the game
EnqueueAction(action) ==
    /\ enqueueAction(action)
    /\ UNCHANGED bvars

\* handlePlayerAction with the rate limit checked ahead of the schema
handlePlayerActionRateFirst(limits, payload, time) ==
    LET sized == payload.kind # "undefined" /\ jsonLength(payload) <= maxPayloadSize
        limit == checkRateLimit(limits, payload.playerId, time)
        valid == sized /\ limit.ret /\ validatePlayerAction(payload)
    IN [checks |-> <<"size">> \o (IF sized THEN <<"rate">> ELSE <<>>)
                              \o (IF sized /\ limit.ret THEN <<"schema">> ELSE <<>>),
        rateLimits |-> IF sized THEN limit.rateLimits ELSE limits,
        throttle |-> sized /\ ~limit.ret,
        enqueue |-> valid]

\* handlePlayerAction(room, payload) up to its call of enqueueAction, with
\* serverState.rateLimits = limits and Date.now() = time: the checks it runs, the
\* rate limits afterwards, whether it sends the throttle notice and whether it goes
\* on to enqueueAction.  payload stands for payload.payload.
handlePlayerAction(limits, payload, time) ==
    LET \* JSON.stringify(undefined).length throws, and the catch ends the call
        sized == payload.kind # "undefined" /\ jsonLength(payload) <= maxPayloadSize
        valid == sized /\ validatePlayerAction(payload)
        limit == checkRateLimit(limits, payload.playerId, time)
    IN [checks |-> <<"size">> \o (IF sized THEN <<"schema">> ELSE <<>>)
                              \o (IF valid THEN <<"rate">> ELSE <<>>),
        rateLimits |-> IF valid THEN limit.rateLimits ELSE limits,
        throttle |-> valid /\ ~limit.ret,
        enqueue |-> valid /\ limit.ret]

\* handlePlayerAction(room, payload), the listener of a room's player_action
\* broadcasts
HandlePlayerAction(room, payload) ==
    LET call == handlePlayerAction(rateLimits, payload, now)
        action == ActionOf(payload)
    IN /\ Idle
       /\ received < MaxMessages
       /\ received' = received + 1
       /\ handled' = [room |-> room, action |-> payload, checks |-> call.checks,
                      enqueued |-> call.enqueue]
       /\ rateLimits' = call.rateLimits
       /\ admitted' = IF call.enqueue
                      THEN MapSet(admitted, payload.playerId,
                                  Append(MapGet(admitted, payload.playerId, <<>>), now))
                      ELSE admitted
       /\ sent' = IF call.throttle
                  THEN Append(sent, Broadcast(room, "system",
                                              [type |-> "throttle",
                                               playerId |-> payload.playerId]))
                  ELSE sent
       /\ lastActivity' = IF call.enqueue THEN [lastActivity EXCEPT ![room] = now]
                          ELSE lastActivity
       /\ UNCHANGED <<rvars, lvars>>
       /\ IF call.enqueue /\ room = RoomA
          THEN enqueueAction(action)
          ELSE UNCHANGED <<svars, cvars>>
       /\ IF call.enqueue /\ room = RoomB
          THEN /\ Len(peerQueue) < MaxEnqueue
               /\ peerQueue' = IF invalidAction(action) THEN peerQueue
                               ELSE Append(peerQueue,
                                           [type |-> action.type,
                                            playerId |-> action.playerId,
                                            data |-> action.data,
                                            serverTimestamp |-> now, targetTick |-> 1])
          ELSE UNCHANGED peerQueue

\* addPlayer(playerId) called on the game
AddPlayer(playerId, pos) ==
    /\ Idle
    /\ LET gs == addPlayer(GS(entities, stats.totalPlayers, nextUuid), playerId, pos)
       IN /\ entities' = gs.entities
          /\ stats' = [stats EXCEPT !.totalPlayers = gs.totalPlayers]
    /\ lastOp' = [op |-> "addPlayer", uid |-> 0, arg |-> MkAction("spawn", playerId, NoDir),
                  ret |-> TRUE]
    /\ UNCHANGED <<actionQueue, isRunning, currentTick, gameLoopInterval, onUpdateCallback,
                   timers, now, pc, processedCount, ci, cj, nextUid, nextUuid, nextTimer,
                   clockSteps, accepted, applied, phaseLog, deltas>>
    /\ UNCHANGED cvars
    /\ UNCHANGED bvars
    /\ UNCHANGED inputSeen

\* startLoop without its isRunning test
StartLoopUnguarded(updateCallback) ==
    /\ Idle
    /\ nextTimer <= MaxStarts
    /\ onUpdateCallback' = updateCallback
    /\ isRunning' = TRUE
    /\ gameLoopInterval' = nextTimer
    /\ timers' = timers \cup {nextTimer}
    /\ nextTimer' = nextTimer + 1
    /\ lastOp' = [op |-> "startLoop", uid |-> 0, arg |-> MkAction(updateCallback, NoId, NoDir),
                  ret |-> TRUE]
    /\ UNCHANGED <<entities, actionQueue, currentTick, stats, now, pc, processedCount, ci, cj,
                   nextUid, nextUuid, clockSteps, accepted, applied, phaseLog, deltas>>
    /\ UNCHANGED cvars
    /\ UNCHANGED bvars
    /\ UNCHANGED inputSeen

\* startLoop that begins a new count of ticks
StartLoopFromTickZero(updateCallback) ==
    /\ Idle
    /\ isRunning \/ nextTimer <= MaxStarts
    /\ IF isRunning
       THEN UNCHANGED <<isRunning, onUpdateCallback, gameLoopInterval, timers, nextTimer,
                        currentTick>>
       ELSE /\ onUpdateCallback' = updateCallback
            /\ isRunning' = TRUE
            /\ gameLoopInterval' = nextTimer
            /\ timers' = timers \cup {nextTimer}
            /\ nextTimer' = nextTimer + 1
            /\ currentTick' = 0
    /\ lastOp' = [op |-> "startLoop", uid |-> 0, arg |-> MkAction(updateCallback, NoId, NoDir),
                  ret |-> TRUE]
    /\ UNCHANGED <<entities, actionQueue, stats, now, pc, processedCount, ci, cj,
                   nextUid, nextUuid, clockSteps, accepted, applied, phaseLog, deltas>>
    /\ UNCHANGED cvars
    /\ UNCHANGED bvars
    /\ UNCHANGED inputSeen

\* startLoop(updateCallback)
StartLoop(updateCallback) ==
    /\ Idle
    /\ isRunning \/ nextTimer <= MaxStarts
    /\ IF isRunning
       THEN UNCHANGED <<isRunning, onUpdateCallback, gameLoopInterval, timers, nextTimer>>
       ELSE /\ onUpdateCallback' = updateCallback
            /\ isRunning' = TRUE
            /\ gameLoopInterval' = nextTimer
            /\ timers' = timers \cup {nextTimer}
            /\ nextTimer' = nextTimer + 1
    /\ lastOp' = [op |-> "startLoop", uid |-> 0, arg |-> MkAction(updateCallback, NoId, NoDir),
                  ret |-> TRUE]   \* arg.type carries the callback
    /\ UNCHANGED <<entities, actionQueue, currentTick, stats, now, pc, processedCount, ci, cj,
                   nextUid, nextUuid, clockSteps, accepted, applied, phaseLog, deltas>>
    /\ UNCHANGED cvars
    /\ UNCHANGED bvars
    /\ UNCHANGED inputSeen

\* stopLoop()
StopLoop ==
    /\ Idle
    /\ IF ~isRunning
       THEN UNCHANGED <<isRunning, gameLoopInterval, timers>>
       ELSE /\ isRunning' = FALSE
            /\ IF gameLoopInterval # NoTimer
               THEN /\ timers' = timers \ {gameLoopInterval}
                    /\ gameLoopInterval' = NoTimer
               ELSE UNCHANGED <<gameLoopInterval, timers>>
    /\ lastOp' = [op |-> "stopLoop", uid |-> 0, arg |-> NullAction, ret |-> TRUE]
    /\ UNCHANGED <<entities, actionQueue, currentTick, stats, onUpdateCallback, now, pc,
                   processedCount, ci, cj, nextUid, nextUuid, nextTimer, clockSteps, accepted,
                   applied, phaseLog, deltas>>
    /\ UNCHANGED cvars
    /\ UNCHANGED bvars
    /\ UNCHANGED inputSeen

\* Time passes between two events.
ClockSteps == {1000 \div tickHz, fragmentLifetime + 1, idleTimeout + 1}

AdvanceClock(d) ==
    /\ Idle
    /\ clockSteps < MaxClockSteps
    /\ clockSteps' = clockSteps + 1
    /\ now' = now + d
    /\ UNCHANGED <<entities, actionQueue, isRunning, currentTick, stats, gameLoopInterval,
                   onUpdateCallback, timers, pc, processedCount, ci, cj, nextUid, nextUuid,
                   nextTimer, accepted, applied, phaseLog, lastOp, deltas>>
    /\ UNCHANGED cvars
    /\ UNCHANGED bvars
    /\ UNCHANGED inputSeen


(***************************************************************************)
(* step(), run by the interval timer; one step of the model per phase,    *)
(* per drained action and per collision pair.  A step runs to completion: *)
(* no API call is taken while pc # "idle".                                *)
(***************************************************************************)
\* the statements of step() after processActionQueue, in program order
StepOrder == <<"drain", "physics", "collisions", "cleanup", "stats", "delta", "tick">>

\* the cull moved before the collision pass
PhaseAfterCullFirst(phase) ==
    CASE phase = "physics" -> "cleanup"
      [] phase = "cleanup" -> "collisions"
      [] phase = "collisions" -> "stats"
      [] phase = "drain" -> "physics"
      [] phase = "stats" -> "delta"
      [] phase = "delta" -> "tick"
      [] OTHER -> "idle"

PhaseAfter(phase) ==
    LET k == CHOOSE n \in 1..Len(StepOrder) : StepOrder[n] = phase
    IN IF k = Len(StepOrder) THEN "idle" ELSE StepOrder[k + 1]

\* the interval timer fires and calls step()
StepBegin(maxTick) ==
    /\ Idle
    /\ timers # {}
    /\ currentTick < maxTick
    /\ pc' = StepOrder[1]
    /\ processedCount' = 0
    /\ phaseLog' = <<>>
    /\ lastOp' = [op |-> "step", uid |-> 0, arg |-> NullAction, ret |-> TRUE]
    /\ UNCHANGED <<entities, actionQueue, isRunning, currentTick, stats, gameLoopInterval,
                   onUpdateCallback, timers, now, ci, cj, nextUid, nextUuid, nextTimer,
                   clockSteps, accepted, applied, deltas>>
    /\ UNCHANGED cvars
    /\ UNCHANGED bvars
    /\ UNCHANGED inputSeen

\* which end of the queue processActionQueue takes from: shift() takes the head
QueueTakeLast(queue) == queue[Len(queue)]
QueueTake(queue) == Head(queue)
\* what is left of the queue is dropped
QueueRestNone(queue) == <<>>
QueueRest(queue) == Tail(queue)

\* processActionQueue: one turn of its while loop.  overBudget is the outcome of
\* performance.now() - startTime > 50 after the action was processed.
DrainOne(pos, overBudget) ==
    /\ pc = "drain"
    /\ actionQueue # <<>>
    /\ LET action == QueueTake(actionQueue)
           gs == processAction(GS(entities, stats.totalPlayers, nextUuid), action, pos)
           last == overBudget \/ QueueRest(actionQueue) = <<>>
       IN /\ actionQueue' = QueueRest(actionQueue)
          /\ applied' = Append(applied, action.uid)
          /\ entities' = gs.entities
          /\ nextUuid' = gs.nextUuid
          /\ processedCount' = processedCount + 1
          /\ stats' = [stats EXCEPT
                         !.totalPlayers = gs.totalPlayers,
                         !.actionsProcessed = IF last THEN @ + processedCount + 1 ELSE @]
          /\ pc' = IF last THEN PhaseAfter("drain") ELSE "drain"
          /\ phaseLog' = IF last THEN Append(phaseLog, "drain") ELSE phaseLog
    /\ UNCHANGED <<isRunning, currentTick, gameLoopInterval, onUpdateCallback, timers, now,
                   ci, cj, nextUid, nextTimer, clockSteps, accepted, lastOp, deltas>>
    /\ UNCHANGED cvars
    /\ UNCHANGED bvars
    /\ inputSeen' = IF QueueTake(actionQueue).type = "input"
                    THEN MapSet(inputSeen, QueueTake(actionQueue).playerId, now)
                    ELSE inputSeen

\* processActionQueue on an empty queue
DrainNone ==
    /\ pc = "drain"
    /\ actionQueue = <<>>
    /\ pc' = PhaseAfter("drain")
    /\ phaseLog' = Append(phaseLog, "drain")
    /\ UNCHANGED <<entities, actionQueue, isRunning, currentTick, stats, gameLoopInterval,
                   onUpdateCallback, timers, now, processedCount, ci, cj, nextUid, nextUuid,
                   nextTimer, clockSteps, accepted, applied, lastOp, deltas>>
    /\ UNCHANGED cvars
    /\ UNCHANGED bvars
    /\ UNCHANGED inputSeen

\* integratePhysics: the loop body for one entity
integrateEntity(entity) ==
    IF entity.type = "pellet" THEN entity
    ELSE LET newPos == integratePosition(entity)
             moved == [entity EXCEPT !.x = newPos.x, !.y = newPos.y,
                                     !.vx = applyDamping(@), !.vy = applyDamping(@)]
             clampedPos == clampToWorld(moved, moved.radius)
             clamped == [moved EXCEPT !.x = clampedPos.x, !.y = clampedPos.y]
         IN \* the comparison reads the position just assigned
            IF clampedPos.x # clamped.x \/ clampedPos.y # clamped.y
            THEN [clamped EXCEPT !.vx = TruncDiv(@, 2), !.vy = TruncDiv(@, 2)]
            ELSE clamped

IntegratePhysics ==
    /\ pc = "physics"
    /\ entities' = [k \in 1..Len(entities) |-> integrateEntity(entities[k])]
    /\ pc' = PhaseAfter("physics")
    /\ ci' = 1
    /\ cj' = 2
    /\ phaseLog' = Append(phaseLog, "physics")
    /\ UNCHANGED <<actionQueue, isRunning, currentTick, stats, gameLoopInterval,
                   onUpdateCallback, timers, now, processedCount, nextUid, nextUuid, nextTimer,
                   clockSteps, accepted, applied, lastOp, deltas>>
    /\ UNCHANGED cvars
    /\ UNCHANGED bvars
    /\ UNCHANGED inputSeen

\* the predator takes the mass and keeps its radius
handleCollisionKeepRadius(ents, a, b) ==
    LET eat(predator, prey) ==
            [ents EXCEPT
               ![predator] = [@ EXCEPT
                    !.mass = calculateNewMass(ents[predator].mass, ents[prey].mass)],
               ![prey] = [@ EXCEPT !.isAlive = FALSE, !.killedBy = ents[predator].id]]
    IN IF canEat(ents[a], ents[b]) THEN eat(a, b)
       ELSE IF canEat(ents[b], ents[a]) THEN eat(b, a)
       ELSE ents

\* handleCollision(entityA, entityB) on entities a and b of ents
handleCollision(ents, a, b) ==
    LET eat(predator, prey) ==
            [ents EXCEPT
               ![predator] = [@ EXCEPT
                    !.mass = calculateNewMass(ents[predator].mass, ents[prey].mass),
                    !.radius = radiusFromMass(calculateNewMass(ents[predator].mass,
                                                               ents[prey].mass))],
               ![prey] = [@ EXCEPT !.isAlive = FALSE, !.killedBy = ents[predator].id]]
    IN IF canEat(ents[a], ents[b]) THEN eat(a, b)
       ELSE IF canEat(ents[b], ents[a]) THEN eat(b, a)
       ELSE ents

\* processCollisions: the body of the inner loop for the pair (i, j)
collidePair(ents, i, j) ==
    IF checkCollision(ents[i], ents[j]) THEN handleCollision(ents, i, j) ELSE ents

CollidePair ==
    /\ pc = "collisions"
    /\ cj <= Len(entities)
    /\ entities' = collidePair(entities, ci, cj)
    /\ IF cj < Len(entities)
       THEN /\ cj' = cj + 1
            /\ ci' = ci
       ELSE /\ ci' = ci + 1
            /\ cj' = ci + 2
    /\ UNCHANGED <<actionQueue, isRunning, currentTick, stats, gameLoopInterval,
                   onUpdateCallback, timers, now, pc, processedCount, nextUid, nextUuid,
                   nextTimer, clockSteps, accepted, applied, phaseLog, lastOp, deltas>>
    /\ UNCHANGED cvars
    /\ UNCHANGED bvars
    /\ UNCHANGED inputSeen

\* processCollisions: both loops are over
CollideEnd ==
    /\ pc = "collisions"
    /\ cj > Len(entities)
    /\ pc' = PhaseAfter("collisions")
    /\ ci' = 0
    /\ cj' = 0
    /\ phaseLog' = Append(phaseLog, "collisions")
    /\ UNCHANGED <<entities, actionQueue, isRunning, currentTick, stats, gameLoopInterval,
                   onUpdateCallback, timers, now, processedCount, nextUid, nextUuid, nextTimer,
                   clockSteps, accepted, applied, lastOp, deltas>>
    /\ UNCHANGED cvars
    /\ UNCHANGED bvars
    /\ UNCHANGED inputSeen

shouldRemoveExpiredOnly(entity) ==
    \/ /\ entity.type = "fragment"
       /\ entity.lifetime # 0
       /\ now - entity.createdAt > entity.lifetime
    \/ /\ entity.type = "player"
       /\ entity.lastInputTime # 0
       /\ now - entity.lastInputTime > idleTimeout

\* cleanupDeadEntities: whether the loop body deletes the entity
shouldRemove(entity) ==
    \/ ~entity.isAlive
    \/ /\ entity.type = "fragment"
       /\ entity.lifetime # 0
       /\ now - entity.createdAt > entity.lifetime
    \/ /\ entity.type = "player"
       /\ entity.lastInputTime # 0
       /\ now - entity.lastInputTime > idleTimeout

KeepEntity(entity) == ~shouldRemove(entity)

CleanupDeadEntities ==
    /\ pc = "cleanup"
    /\ entities' = SelectSeq(entities, KeepEntity)
    /\ pc' = PhaseAfter("cleanup")
    /\ phaseLog' = Append(phaseLog, "cleanup")
    /\ UNCHANGED <<actionQueue, isRunning, currentTick, stats, gameLoopInterval,
                   onUpdateCallback, timers, now, processedCount, ci, cj, nextUid, nextUuid,
                   nextTimer, clockSteps, accepted, applied, lastOp, deltas>>
    /\ UNCHANGED cvars
    /\ UNCHANGED bvars
    /\ UNCHANGED inputSeen

CountType(ents, type) == Cardinality({k \in 1..Len(ents) : ents[k].type = type})

UpdateStats ==
    /\ pc = "stats"
    /\ stats' = [stats EXCEPT !.activePlayers = CountType(entities, "player"),
                              !.pelletsCount = CountType(entities, "pellet")]
    /\ pc' = PhaseAfter("stats")
    /\ phaseLog' = Append(phaseLog, "stats")
    /\ UNCHANGED <<entities, actionQueue, isRunning, currentTick, gameLoopInterval,
                   onUpdateCallback, timers, now, processedCount, ci, cj, nextUid, nextUuid,
                   nextTimer, clockSteps, accepted, applied, lastOp, deltas>>
    /\ UNCHANGED cvars
    /\ UNCHANGED bvars
    /\ UNCHANGED inputSeen

\* generateDelta()
generateDelta ==
    [kind |-> "delta",
     tick |-> currentTick,
     entities |-> [k \in 1..Len(entities) |->
                     [id |-> entities[k].id,
                      pos |-> <<RoundDiv(entities[k].x, Res), RoundDiv(entities[k].y, Res)>>,
                      vel |-> <<entities[k].vx, entities[k].vy>>,
                      mass |-> RoundDiv(entities[k].mass, MassUnit),
                      radius |-> RoundDiv(entities[k].radius, Res),
                      type |-> entities[k].type,
                      isAlive |-> entities[k].isAlive]],
     serverTs |-> now,
     stats |-> stats]

\* const delta = generateDelta(); if (onUpdateCallback) onUpdateCallback(delta)
EmitDelta ==
    /\ pc = "delta"
    /\ deltas' = IF onUpdateCallback # NoCallback
                 THEN Append(deltas, [to |-> onUpdateCallback, delta |-> generateDelta])
                 ELSE deltas
    /\ sent' = IF onUpdateCallback # NoCallback
               THEN sent \o publishWorldUpdate(RoomOf(onUpdateCallback), generateDelta)
               ELSE sent
    /\ pc' = PhaseAfter("delta")
    /\ phaseLog' = Append(phaseLog, "delta")
    /\ UNCHANGED <<entities, actionQueue, isRunning, currentTick, stats, gameLoopInterval,
                   onUpdateCallback, timers, now, processedCount, ci, cj, nextUid, nextUuid,
                   nextTimer, clockSteps, accepted, applied, lastOp>>
    /\ UNCHANGED cvars
    /\ UNCHANGED <<rateLimits, lastActivity, peerQueue, received, handled, admitted, rvars,
                   lvars>>
    /\ UNCHANGED inputSeen

\* gameState.currentTick++, and step() returns
IncrementTick ==
    /\ pc = "tick"
    /\ currentTick' = currentTick + 1
    /\ pc' = PhaseAfter("tick")
    /\ phaseLog' = Append(phaseLog, "tick")
    /\ UNCHANGED <<entities, actionQueue, isRunning, stats, gameLoopInterval,
                   onUpdateCallback, timers, now, processedCount, ci, cj, nextUid, nextUuid,
                   nextTimer, clockSteps, accepted, applied, lastOp, deltas>>
    /\ UNCHANGED cvars
    /\ UNCHANGED bvars
    /\ UNCHANGED inputSeen

\* the phases of a running step
StepPhases ==
    \/ DrainNone
    \/ IntegratePhysics
    \/ CollidePair
    \/ CollideEnd
    \/ CleanupDeadEntities
    \/ UpdateStats
    \/ EmitDelta
    \/ IncrementTick

(***************************************************************************)
(* SpatialHashGrid                                                        *)
(***************************************************************************)
cellSize == 150

Range(s) == {s[k] : k \in 1..Len(s)}

\* the cell of the centre alone
getEntityCellsOfCentre(entity) ==
    <<<<entity.position.x \div (cellSize * Res), entity.position.y \div (cellSize * Res)>>>>

\* getEntityCells(entity): the cells the bounding box covers, x outer, y inner
getEntityCells(entity) ==
    LET startCellX == (entity.position.x - entity.radius) \div (cellSize * Res)
        endCellX == (entity.position.x + entity.radius) \div (cellSize * Res)
        startCellY == (entity.position.y - entity.radius) \div (cellSize * Res)
        endCellY == (entity.position.y + entity.radius) \div (cellSize * Res)
        rows == endCellY - startCellY + 1
    IN [k \in 1..((endCellX - startCellX + 1) * rows) |->
          <<startCellX + ((k - 1) \div rows), startCellY + ((k - 1) % rows)>>]

\* insert(entity); a cell is the set of ids registered in it
SpatialHashGrid_insert(spatialGrid, entity) ==
    LET cells == getEntityCells(entity)
    IN [grid |-> [cellKey \in DOMAIN spatialGrid.grid \cup Range(cells) |->
                    IF cellKey \in Range(cells)
                    THEN MapGet(spatialGrid.grid, cellKey, {}) \cup {entity.id}
                    ELSE spatialGrid.grid[cellKey]],
        entityCells |-> MapSet(spatialGrid.entityCells, entity.id, cells)]

\* remove(entityId): a cell left empty is deleted
SpatialHashGrid_remove(spatialGrid, entityId) ==
    LET oldCells == Range(MapGet(spatialGrid.entityCells, entityId, <<>>))
        emptied == {cellKey \in DOMAIN spatialGrid.grid \cap oldCells :
                      spatialGrid.grid[cellKey] \ {entityId} = {}}
    IN [grid |-> [cellKey \in DOMAIN spatialGrid.grid \ emptied |->
                    IF cellKey \in oldCells
                    THEN spatialGrid.grid[cellKey] \ {entityId}
                    ELSE spatialGrid.grid[cellKey]],
        entityCells |-> MapDelete(spatialGrid.entityCells, entityId)]

\* update(entity)
SpatialHashGrid_update(spatialGrid, entity) ==
    SpatialHashGrid_insert(SpatialHashGrid_remove(spatialGrid, entity.id), entity)

(***************************************************************************)
(* PhysicsEngine                                                          *)
(***************************************************************************)
\* calculateRadius: sqrt(mass / PI); mass in 1/MassUnit, result in 1/Res
calculateRadius(mass) == ISqrt((mass * Res * Res * 113) \div (MassUnit * 355))

\* calculateMaxVelocity: clamp(220 / mass^(1/4), 18, 220)
calculateMaxVelocity(mass) ==
    LET root2 == ISqrt((mass * 10000) \div MassUnit)
        root4 == ISqrt(root2 * 100)
        baseVelocity == (220 * 100) \div Max(root4, 1)
    IN Max(18, Min(220, baseVelocity))

getEntity(pe, id) == Get(pe.entities, id)

\* createEntity(id, type, mass, position): Map.set keeps the place of a known id
PhysicsEngine_createEntity(pe, id, type, mass, position) ==
    LET entity == [id |-> id, type |-> type, mass |-> mass,
                   radius |-> calculateRadius(mass),
                   position |-> position, velocity |-> [x |-> 0, y |-> 0]]
    IN [entities |-> IF Has(pe.entities, id)
                     THEN [pe.entities EXCEPT ![IndexOf(pe.entities, id)] = entity]
                     ELSE Append(pe.entities, entity),
        spatialGrid |-> SpatialHashGrid_insert(pe.spatialGrid, entity)]

\* updateEntityMass(entityId, newMass)
updateEntityMass(pe, entityId, newMass) ==
    IF ~Has(pe.entities, entityId) THEN pe
    ELSE LET k == IndexOf(pe.entities, entityId)
             entity == [pe.entities[k] EXCEPT !.mass = newMass,
                                               !.radius = calculateRadius(newMass)]
         IN [entities |-> [pe.entities EXCEPT ![k] = entity],
             spatialGrid |-> SpatialHashGrid_update(pe.spatialGrid, entity)]

RECURSIVE GCD(_, _)
GCD(a, b) == IF b = 0 THEN a ELSE GCD(b, a % b)

\* a vector and its multiples have one direction: the smallest integer multiple
Reduce(v) ==
    LET g == GCD(Max(v[1], -v[1]), Max(v[2], -v[2]))
    IN IF g = 0 THEN v ELSE <<v[1] \div g, v[2] \div g>>

\* direction / magnitude, components in 1/1000; the zero vector stays as it is
unitVector(direction) == normalize(Reduce(direction))

\* applyMovement(entityId, direction)
applyMovement(pe, entityId, direction) ==
    IF ~Has(pe.entities, entityId) THEN pe
    ELSE LET k == IndexOf(pe.entities, entityId)
             maxVelocity == calculateMaxVelocity(pe.entities[k].mass)
             unit == unitVector(direction)
         IN [pe EXCEPT !.entities[k].velocity =
                          [x |-> TruncDiv(unit[1] * maxVelocity, 1000),
                           y |-> TruncDiv(unit[2] * maxVelocity, 1000)]]

(***************************************************************************)
(* SplitMergeSystem, with the configuration its constructor defaults to   *)
(***************************************************************************)
minMassToSplit == 35
splitRatio == 50          \* 0.5, in percent
splitForce == 300
splitCooldown == 1000
maxSplitParts == 16

\* `${playerId}_split_${Date.now()}`
SplitId(playerId, time) == playerId \o <<"split", time>>

canPlayerSplitNoCooldown(playerId) ==
    /\ Has(physicsEngine.entities, playerId)
    /\ ~(getEntity(physicsEngine, playerId).mass < minMassToSplit * MassUnit)
    /\ ~(Len(MapGet(playerSplits, playerId, <<>>)) >= maxSplitParts - 1)

\* the state of the SplitMergeSystem and of the PhysicsEngine it drives
SMS == [physicsEngine |-> physicsEngine, playerSplits |-> playerSplits,
        lastSplitTime |-> lastSplitTime]

\* canPlayerSplit(playerId) in the state sms: the entity, the minimum mass, the
\* cooldown (a player that never split has last split 0), the number of parts
canPlayerSplitIn(sms, playerId) ==
    /\ Has(sms.physicsEngine.entities, playerId)
    /\ ~(getEntity(sms.physicsEngine, playerId).mass < minMassToSplit * MassUnit)
    /\ ~(clientNow - MapGet(sms.lastSplitTime, playerId, 0) < splitCooldown)
    /\ ~(Len(MapGet(sms.playerSplits, playerId, <<>>)) >= maxSplitParts - 1)

\* canPlayerSplit(playerId)
canPlayerSplit(playerId) == canPlayerSplitIn(SMS, playerId)

\* performSplit past its test, in the state sms.  Date.now() reads one instant
\* during the call; player is the stored object, so its radius is already the
\* shrunk one when the new cell is placed.
splitPlayerIn(sms, playerId, direction) ==
    LET player == getEntity(sms.physicsEngine, playerId)
        splitDirection == unitVector(IF direction = NoDir THEN <<0, -1>> ELSE direction)
        newCellMass == (player.mass * splitRatio) \div 100
        remainingMass == player.mass - newCellMass
        shrunk == updateEntityMass(sms.physicsEngine, playerId, remainingMass)
        original == getEntity(shrunk, playerId)
        newCellId == SplitId(playerId, clientNow)
        newCellPosition ==
            [x |-> original.position.x
                     + TruncDiv(splitDirection[1] * (original.radius + 10 * Res), 1000),
             y |-> original.position.y
                     + TruncDiv(splitDirection[2] * (original.radius + 10 * Res), 1000)]
        created == PhysicsEngine_createEntity(shrunk, newCellId, original.type,
                                              newCellMass, newCellPosition)
        pushed == applyMovement(created, newCellId,
                                <<splitDirection[1] * splitForce,
                                  splitDirection[2] * splitForce>>)
        recoiled == applyMovement(pushed, playerId,
                                  <<-splitDirection[1] * ((splitForce * 3) \div 10),
                                    -splitDirection[2] * ((splitForce * 3) \div 10)>>)
    IN [physicsEngine |-> recoiled,
        playerSplits |-> MapSet(sms.playerSplits, playerId,
                                Append(MapGet(sms.playerSplits, playerId, <<>>),
                                       [id |-> newCellId, parentId |-> playerId,
                                        createdAt |-> clientNow, canMerge |-> FALSE])),
        lastSplitTime |-> MapSet(sms.lastSplitTime, playerId, clientNow)]

splitPlayer(playerId, direction) == splitPlayerIn(SMS, playerId, direction)

\* performSplit(playerId, direction)
PerformSplit(playerId, direction) ==
    /\ IF canPlayerSplit(playerId)
       THEN LET done == splitPlayer(playerId, direction)
            IN /\ physicsEngine' = done.physicsEngine
               /\ playerSplits' = done.playerSplits
               /\ lastSplitTime' = done.lastSplitTime
               /\ clientOp' = [op |-> "performSplit", id |-> playerId, ret |-> TRUE]
       ELSE /\ clientOp' = [op |-> "performSplit", id |-> playerId, ret |-> FALSE]
            /\ UNCHANGED <<physicsEngine, playerSplits, lastSplitTime>>
    /\ UNCHANGED clientNow
    /\ UNCHANGED svars
    /\ UNCHANGED bvars

(***************************************************************************)
(* The client's environment                                               *)
(***************************************************************************)
UnknownId == <<"ghost", 0>>
ClientSpawn == [x |-> 100 * Res, y |-> 100 * Res]
\* a mass below minMassToSplit and a mass two halvings above it
ClientMasses == {34 * MassUnit, 80 * MassUnit}
FullMass == 80 * MassUnit
\* no direction, and a direction that is not a unit vector
SplitDirections == {NoDir, <<0, -2>>}

\* the game creates the local player once
CreatePlayer(id, mass) ==
    /\ ~Has(physicsEngine.entities, id)
    /\ physicsEngine' = PhysicsEngine_createEntity(physicsEngine, id, "player", mass,
                                                   ClientSpawn)
    /\ clientOp' = [op |-> "createEntity", id |-> id, ret |-> TRUE]
    /\ UNCHANGED <<playerSplits, lastSplitTime, clientNow>>
    /\ UNCHANGED svars
    /\ UNCHANGED bvars

\* the player eats back to full mass once it is too small to split
GrowPlayer(id) ==
    /\ Has(physicsEngine.entities, id)
    /\ getEntity(physicsEngine, id).mass < minMassToSplit * MassUnit
    /\ physicsEngine' = updateEntityMass(physicsEngine, id, FullMass)
    /\ clientOp' = [op |-> "updateEntityMass", id |-> id, ret |-> TRUE]
    /\ UNCHANGED <<playerSplits, lastSplitTime, clientNow>>
    /\ UNCHANGED svars
    /\ UNCHANGED bvars

\* the instants around the end of a player's cooldown
CooldownInstants(id) ==
    {MapGet(lastSplitTime, id, 0) + splitCooldown - 1,
     MapGet(lastSplitTime, id, 0) + splitCooldown}

\* time passes on the client
ClientClock(time) ==
    /\ time > clientNow
    /\ clientNow' = time
    /\ clientOp' = [op |-> "clock", id |-> NoId, ret |-> TRUE]
    /\ UNCHANGED <<physicsEngine, playerSplits, lastSplitTime>>
    /\ UNCHANGED svars
    /\ UNCHANGED bvars

\* the ids a split is asked for: the player, its first fragment, an id nobody has
SplitTargets ==
    {FirstPlayer, UnknownId}
    \cup {MapGet(playerSplits, FirstPlayer, <<>>)[k].id :
            k \in 1..Min(1, Len(MapGet(playerSplits, FirstPlayer, <<>>)))}

(***************************************************************************)
(* Spec: loop control.  Every API call, two callbacks, few action kinds.  *)
(***************************************************************************)
ControlActions == {NullAction, MkAction("input", FirstPlayer, <<1, 0>>)}

Next ==
    \/ \E action \in ControlActions : EnqueueAction(action)
    \/ \E p \in PlayerIds, pos \in SpawnOrigin : AddPlayer(p, pos)
    \/ \E cb \in Callbacks \cup {NoCallback} : StartLoop(cb)
    \/ StopLoop
    \/ StepBegin(MaxTick)
    \/ \E pos \in SpawnOrigin, overBudget \in BOOLEAN : DrainOne(pos, overBudget)
    \/ StepPhases

Spec == Init /\ [][Next]_vars

(***************************************************************************)
(* SpecQueue: the action queue.  Every kind of action, well-formed or     *)
(* not, for known and unknown players; the loop is started once.          *)
(***************************************************************************)
NextQueue ==
    \/ \E action \in MalformedActions \cup LoopActions : EnqueueAction(action)
    \/ \E p \in {FirstPlayer}, pos \in SpawnOrigin : AddPlayer(p, pos)
    \/ StartLoop("publishA")
    \/ StepBegin(MaxTick)
    \/ \E pos \in SpawnOrigin, overBudget \in BOOLEAN : DrainOne(pos, overBudget)
    \/ StepPhases

SpecQueue == Init /\ [][NextQueue]_vars

(***************************************************************************)
(* SpecArena: collisions.  Players spawn next to each other and split.    *)
(***************************************************************************)
NextArena ==
    \/ \E action \in ArenaActions : EnqueueAction(action)
    \/ \E p \in PlayerIds, pos \in SpawnPositions : AddPlayer(p, pos)
    \/ StartLoop("publishA")
    \/ StepBegin(MaxTick - 1)
    \/ \E pos \in SpawnPositions, overBudget \in BOOLEAN : DrainOne(pos, overBudget)
    \/ StepPhases

SpecArena == Init /\ [][NextArena]_vars

(***************************************************************************)
(* SpecSplit: the client's split system.  One player splits, waits out    *)
(* its cooldown and grows back, up to the limit of parts.                 *)
(***************************************************************************)
NextSplit ==
    \/ \E mass \in ClientMasses : CreatePlayer(FirstPlayer, mass)
    \/ GrowPlayer(FirstPlayer)
    \/ \E time \in CooldownInstants(FirstPlayer) : ClientClock(time)
    \/ \E id \in SplitTargets, direction \in SplitDirections : PerformSplit(id, direction)

SpecSplit == Init /\ [][NextSplit]_vars


(***************************************************************************)
(* Properties of the server engine                                        *)
(***************************************************************************)
QueueUids == [k \in 1..Len(actionQueue) |-> actionQueue[k].uid]

\* C1: the action queue is FIFO across ticks: the actions applied so far,
\* followed by the actions still queued, are the accepted actions in the order
\* of their acceptance; so a deferred action stays ahead of every action
\* accepted after it, and no action overtakes an earlier one.
C1_QueueIsFifo == applied \o QueueUids = accepted

\* a drain was cut short: the head of the queue was accepted before the last
\* step and is followed by an action accepted after it
C1_DeferredAheadOfLater ==
    /\ Idle
    /\ Len(applied) >= 1
    /\ Len(actionQueue) >= 2
    /\ actionQueue[1].targetTick <= currentTick
    /\ actionQueue[2].targetTick = currentTick + 1


StepHasRun == Idle /\ phaseLog # <<>>

IsPrefix(a, b) == Len(a) <= Len(b) /\ SubSeq(b, 1, Len(a)) = a

AllAlive(ents) == \A k \in 1..Len(ents) : ents[k].isAlive

InCollisionPass == pc = "collisions" /\ cj <= Len(entities)

\* C3: within one collision pass an entity already marked not-alive takes part
\* in no further eat: it gains no mass, is not eaten again, and kills nobody.
C3_DeadTakesNoPart ==
    [][InCollisionPass =>
         \A k \in 1..Len(entities) :
            ~entities[k].isAlive =>
               /\ entities'[k] = entities[k]
               /\ \A m \in 1..Len(entities) :
                     entities'[m].killedBy = entities[k].id =>
                        entities[m].killedBy = entities[k].id]_vars

Overlapping(a, b) ==
    (a.x - b.x) * (a.x - b.x) + (a.y - b.y) * (a.y - b.y)
        < (a.radius + b.radius) * (a.radius + b.radius)

Advantage(a, b) == 10 * a.mass > 11 * b.mass

C5_EatTransfersMass ==
    [][InCollisionPass /\ entities' # entities =>
         \E pred, prey \in {ci, cj} :
            /\ pred # prey
            /\ entities'[pred].mass = entities[pred].mass + entities[prey].mass
            /\ entities'[prey].mass = entities[prey].mass
            /\ ~entities'[prey].isAlive
            /\ entities'[prey].killedBy = entities[pred].id
            /\ entities'[pred].isAlive = entities[pred].isAlive
            /\ entities'[pred].killedBy = entities[pred].killedBy]_vars

\* a player of mass 100 has eaten a cell of mass 50
C5_PlayerAteHalf ==
    /\ pc = "collisions"
    /\ \E pred, prey \in 1..Len(entities) :
          /\ entities[pred].mass = 150 * MassUnit
          /\ entities[prey].mass = 50 * MassUnit
          /\ ~entities[prey].isAlive
          /\ entities[prey].killedBy = entities[pred].id

\* C6: an entity marked not-alive stays in the store until the cull of the same
\* tick, which removes it: outside the collision pass and the cull no entity of
\* the store is not-alive, and no delta lists a not-alive entity.
C6_DeadCulledInSameTick ==
    [][/\ pc' \notin {"collisions", "cleanup"} => AllAlive(entities')
       /\ \A d \in 1..Len(deltas') :
             \A k \in 1..Len(deltas'[d].delta.entities) :
                deltas'[d].delta.entities[k].isAlive
       /\ pc = "collisions" => Ids(entities') = Ids(entities)]_vars

\* a delta of a tick in which a player of mass 100 ate a cell of mass 50: the
\* player is listed with mass 150 and no longer every entity created is listed
C6_DeltaAfterEat ==
    /\ deltas # <<>>
    /\ LET d == deltas[Len(deltas)].delta
       IN /\ \E k \in 1..Len(d.entities) : d.entities[k].mass = 150
          /\ Len(d.entities) < stats.totalPlayers + nextUuid - 1


\* C7: at most one interval timer is registered and isRunning is true exactly
\* when it exists; startLoop while running keeps the timer and the callback;
\* stopLoop releases the timer; no step starts while the loop is stopped;
\* stopLoop while stopped changes nothing.
C7_OneTimerIffRunning ==
    [][/\ Cardinality(timers') <= 1
       /\ isRunning' <=> timers' # {}
       /\ isRunning' => timers' = {gameLoopInterval'}
       /\ lastOp'.op = "startLoop" /\ isRunning =>
             UNCHANGED <<timers, onUpdateCallback, gameLoopInterval, isRunning>>
       /\ lastOp'.op = "stopLoop" => timers' = {} /\ ~isRunning'
       /\ ~isRunning /\ Idle /\ lastOp'.op \notin {"startLoop"} => pc' = "idle"
       /\ lastOp'.op = "stopLoop" /\ ~isRunning =>
             UNCHANGED <<timers, isRunning, gameLoopInterval, onUpdateCallback, entities,
                         actionQueue, currentTick, stats, pc>>]_vars

\* the loop was stopped and started again, and a further startLoop with another
\* callback was made while it ran
C7_RestartedThenStartAgain ==
    /\ isRunning
    /\ nextTimer = 3
    /\ lastOp.op = "startLoop"
    /\ lastOp.arg.type # onUpdateCallback
    /\ currentTick >= 1

SimState == <<entities, actionQueue, currentTick, stats, isRunning, timers, gameLoopInterval,
              onUpdateCallback, pc, nextUuid, applied, deltas>>

\* C8: enqueueAction returns false and changes nothing when the action is
\* null or lacks a type or a player id; any other action is appended once, at
\* the tail, and the call returns true.
C8_EnqueueRejectsMalformed ==
    [][lastOp'.op = "enqueueAction" /\ lastOp' # lastOp =>
         LET action == lastOp'.arg
             malformed == \/ action.isNull
                          \/ action.type \in {Undefined, ""}
                          \/ action.playerId \in {NoId, EmptyId}
         IN IF malformed
            THEN /\ ~lastOp'.ret
                 /\ UNCHANGED SimState
            ELSE /\ lastOp'.ret
                 /\ Len(actionQueue') = Len(actionQueue) + 1
                 /\ SubSeq(actionQueue', 1, Len(actionQueue)) = actionQueue
                 /\ actionQueue'[Len(actionQueue')].type = action.type
                 /\ actionQueue'[Len(actionQueue')].playerId = action.playerId
                 /\ actionQueue'[Len(actionQueue')].data = action.data
                 /\ UNCHANGED <<entities, currentTick, stats, isRunning, timers, pc>>]_vars

\* an action without player id was refused while actions were queued and
\* players were in the arena
C8_RefusedWithQueueAndPlayers ==
    /\ lastOp.op = "enqueueAction"
    /\ ~lastOp.ret
    /\ ~lastOp.arg.isNull
    /\ lastOp.arg.type = "input"
    /\ actionQueue # <<>>
    /\ entities # <<>>

Draining == pc = "drain" /\ actionQueue # <<>>

UniqueIds(ents) == \A i, j \in 1..Len(ents) : ents[i].id = ents[j].id => i = j

KnownActor(action) == \E k \in 1..Len(entities) : entities[k].id = action.playerId

\* C9 as stated: auto-join is restricted to input actions: an action of any
\* other type for an unknown player id creates no entity.
C9_OnlyInputJoins ==
    [][Draining /\ ~KnownActor(Head(actionQueue)) /\ Head(actionQueue).type # "input" =>
         entities' = entities /\ stats'.totalPlayers = stats.totalPlayers]_vars

\* C9, amended: an input or spawn action for an unknown player id creates one
\* player entity with that id; an input action or an addPlayer call for an id
\* that has an entity creates none and leaves totalPlayers as it is; an action
\* of any other type (split, ability, orb_collect) for an unknown id changes no
\* entity and no counter; no two entities ever share an id.
C9_AutoJoinIdempotent ==
    [][/\ UniqueIds(entities')
       /\ Draining =>
            LET action == Head(actionQueue)
                known == KnownActor(action)
                joins == action.type \in {"input", "spawn"}
            IN /\ ~known /\ joins =>
                     /\ entities' = Append(entities, entities'[Len(entities')])
                     /\ entities'[Len(entities')].id = action.playerId
                     /\ entities'[Len(entities')].type = "player"
                     /\ stats'.totalPlayers = stats.totalPlayers + 1
               /\ known /\ joins =>
                     /\ Len(entities') = Len(entities)
                     /\ Ids(entities') = Ids(entities)
                     /\ stats'.totalPlayers = stats.totalPlayers
               /\ ~known /\ ~joins =>
                     /\ entities' = entities
                     /\ stats'.totalPlayers = stats.totalPlayers
                     /\ nextUuid' = nextUuid
       /\ lastOp'.op = "addPlayer" /\ Has(entities, lastOp'.arg.playerId) =>
            /\ entities' = entities
            /\ stats' = stats]_vars

\* one player has joined by an input action, a later input action has moved
\* it, and addPlayer was then called for the same id
C9_JoinedMovedAddedAgain ==
    /\ stats.totalPlayers = 1
    /\ Len(entities) = 1
    /\ entities[1].vx # 0
    /\ lastOp.op = "addPlayer"
    /\ lastOp.arg.playerId = entities[1].id
    /\ stats.actionsProcessed >= 3

(***************************************************************************)
(* C10                                                                    *)
(***************************************************************************)
FragmentRecords(id) == IF id \in DOMAIN playerSplits THEN playerSplits[id] ELSE <<>>
CooldownOver(id) == id \notin DOMAIN lastSplitTime \/ clientNow - lastSplitTime[id] >= 1000
SplitEligible(id) ==
    /\ \E k \in 1..Len(physicsEngine.entities) :
          /\ physicsEngine.entities[k].id = id
          /\ physicsEngine.entities[k].mass >= 35 * MassUnit
    /\ CooldownOver(id)
    /\ Len(FragmentRecords(id)) < 15

\* C10: performSplit(id) performs a split exactly when the entity exists, its
\* mass is at least 35, at least 1000 ms have passed since that id's last split
\* and it has fewer than 15 fragment records: then it returns true, stores one
\* more entity, appends one fragment record and stamps the cooldown; in every
\* other case it returns false and changes no entity (nor the spatial index), no
\* fragment record and no cooldown timestamp.
C10_SplitExactlyWhenEligible ==
    [][clientOp'.op = "performSplit" =>
         LET id == clientOp'.id
         IN /\ clientOp'.ret = SplitEligible(id)
            /\ SplitEligible(id) =>
                 /\ Len(physicsEngine'.entities) = Len(physicsEngine.entities) + 1
                 /\ Len(playerSplits'[id]) = Len(FragmentRecords(id)) + 1
                 /\ lastSplitTime'[id] = clientNow
            /\ ~SplitEligible(id) =>
                 /\ physicsEngine' = physicsEngine
                 /\ playerSplits' = playerSplits
                 /\ lastSplitTime' = lastSplitTime]_vars

\* The player has split fifteen times, the first time from mass 80 into 40 and
\* 40; it is heavy enough again and its cooldown is over, and the split it asks
\* for is refused.
C10_RefusedAtFifteenFragments ==
    /\ clientOp = [op |-> "performSplit", id |-> FirstPlayer, ret |-> FALSE]
    /\ Len(FragmentRecords(FirstPlayer)) = 15
    /\ CooldownOver(FirstPlayer)
    /\ \E k \in 1..Len(physicsEngine.entities) :
          /\ physicsEngine.entities[k].id = FirstPlayer
          /\ physicsEngine.entities[k].mass >= 35 * MassUnit
    /\ \E k \in 1..Len(physicsEngine.entities) :
          /\ physicsEngine.entities[k].id = FragmentRecords(FirstPlayer)[1].id
          /\ physicsEngine.entities[k].mass = 40 * MassUnit

(***************************************************************************)
(* SpecSplits: a split on both engines.  The client predicts its player's *)
(* first split, then the server's arena runs; the two engines share no    *)
(* state, so each runs while the other stands still.                      *)
(***************************************************************************)
ServerUntouched == lastOp.op = "createGame"
ClientSplitOnce ==
    /\ clientOp = [op |-> "performSplit", id |-> FirstPlayer, ret |-> TRUE]
    /\ Len(FragmentRecords(FirstPlayer)) = 1

NextSplits ==
    \/ ServerUntouched /\ NextSplit
    \/ ClientSplitOnce /\ NextArena

SpecSplits == Init /\ [][NextSplits]_vars

(***************************************************************************)
(* C11                                                                    *)
(***************************************************************************)
ServerSplitting ==
    /\ Draining
    /\ Head(actionQueue).type = "split"
    /\ \E k \in 1..Len(entities) :
          /\ entities[k].id = Head(actionQueue).playerId
          /\ entities[k].mass >= 50 * MassUnit

\* C11: a successful split, the client's performSplit and the server's
\* processSplitAction alike, adds exactly one entity to the store and leaves
\* every other entity's mass as it was, and the parent's mass after the split
\* plus the new fragment's mass is the parent's mass before the split.
C11_SplitConservesMass ==
    [][/\ ServerSplitting =>
            LET k == CHOOSE n \in 1..Len(entities) :
                        entities[n].id = Head(actionQueue).playerId
            IN /\ Len(entities') = Len(entities) + 1
               /\ entities'[Len(entities')].id \notin {entities[n].id : n \in 1..Len(entities)}
               /\ \A n \in 1..Len(entities) :
                     /\ entities'[n].id = entities[n].id
                     /\ n # k => entities'[n].mass = entities[n].mass
               /\ entities'[k].mass + entities'[Len(entities')].mass = entities[k].mass
       /\ (clientOp'.op = "performSplit" /\ clientOp'.ret /\ physicsEngine' # physicsEngine) =>
            LET before == physicsEngine.entities
                after == physicsEngine'.entities
                k == CHOOSE n \in 1..Len(before) : before[n].id = clientOp'.id
            IN /\ Len(after) = Len(before) + 1
               /\ after[Len(after)].id \notin {before[n].id : n \in 1..Len(before)}
               /\ \A n \in 1..Len(before) :
                     /\ after[n].id = before[n].id
                     /\ n # k => after[n].mass = before[n].mass
               /\ after[k].mass + after[Len(after)].mass = before[k].mass]_vars

\* the client has split its player of mass 80 into 40 and 40, and the server
\* has split a player of mass 100 into 50 and 50
C11_BothEnginesSplit ==
    /\ Len(physicsEngine.entities) = 2
    /\ physicsEngine.entities[1].mass = 40 * MassUnit
    /\ physicsEngine.entities[2].mass = 40 * MassUnit
    /\ \E i, j \in 1..Len(entities) :
          /\ entities[i].type = "player"
          /\ entities[j].type = "fragment"
          /\ entities[j].ownerId = entities[i].id
          /\ entities[i].mass = 50 * MassUnit
          /\ entities[j].mass = 50 * MassUnit

(***************************************************************************)
(* SplitMergeSystem: the operations on all of a player's cells            *)
(***************************************************************************)
\* getPlayerCells(playerId): the main cell, then the cells of the player's
\* fragment records, those the store still has; as their ids
getPlayerCells(sms, playerId) ==
    LET splits == MapGet(sms.playerSplits, playerId, <<>>)
        isStored(split) == Has(sms.physicsEngine.entities, split.id)
        stored == SelectSeq(splits, isStored)
    IN (IF Has(sms.physicsEngine.entities, playerId) THEN <<playerId>> ELSE <<>>)
       \o [k \in 1..Len(stored) |-> stored[k].id]

\* the loop of handleSplitInput over the cells it has collected
RECURSIVE splitCells(_, _, _)
splitCells(sms, cells, direction) ==
    IF cells = <<>> THEN sms
    ELSE splitCells(IF canPlayerSplitIn(sms, Head(cells))
                    THEN splitPlayerIn(sms, Head(cells), direction)
                    ELSE sms,
                    Tail(cells), direction)

\* handleSplitInput(playerId, direction)
handleSplitInput(sms, playerId, direction) ==
    splitCells(sms, getPlayerCells(sms, playerId), direction)

\* the loop of applyMovementToAllCells
RECURSIVE moveCells(_, _, _)
moveCells(pe, cells, direction) ==
    IF cells = <<>> THEN pe
    ELSE moveCells(applyMovement(pe, Head(cells), direction), Tail(cells), direction)

\* applyMovementToAllCells(playerId, direction)
applyMovementToAllCells(sms, playerId, direction) ==
    [sms EXCEPT !.physicsEngine = moveCells(@, getPlayerCells(sms, playerId), direction)]

HandleSplitInput(playerId, direction) ==
    /\ LET done == handleSplitInput(SMS, playerId, direction)
       IN /\ physicsEngine' = done.physicsEngine
          /\ playerSplits' = done.playerSplits
          /\ lastSplitTime' = done.lastSplitTime
    /\ clientOp' = [op |-> "handleSplitInput", id |-> playerId, ret |-> TRUE]
    /\ UNCHANGED clientNow
    /\ UNCHANGED svars
    /\ UNCHANGED bvars

ApplyMovementToAllCells(playerId, direction) ==
    /\ physicsEngine' = applyMovementToAllCells(SMS, playerId, direction).physicsEngine
    /\ clientOp' = [op |-> "applyMovementToAllCells", id |-> playerId, ret |-> direction]
    /\ UNCHANGED <<playerSplits, lastSplitTime, clientNow>>
    /\ UNCHANGED svars
    /\ UNCHANGED bvars

(***************************************************************************)
(* SpecCells: one player, heavy enough to split six times over, presses   *)
(* split each time its cooldown ends and steers all its cells.            *)
(***************************************************************************)
CellMasses == {80 * MassUnit, 1120 * MassUnit}
MoveDirections == {<<1, 0>>}

NextCells ==
    \/ \E mass \in CellMasses : CreatePlayer(FirstPlayer, mass)
    \/ \E time \in CooldownInstants(FirstPlayer) : ClientClock(time)
    \/ \E direction \in SplitDirections : HandleSplitInput(FirstPlayer, direction)
    \/ \E direction \in MoveDirections : ApplyMovementToAllCells(FirstPlayer, direction)

SpecCells == Init /\ [][NextCells]_vars

(***************************************************************************)
(* C12                                                                    *)
(***************************************************************************)
\* the cell id is the root's id, or was made from it by splits
DescendsFrom(id, root) == Len(id) >= Len(root) /\ SubSeq(id, 1, Len(root)) = root

LiveCells(root) ==
    {k \in 1..Len(physicsEngine.entities) :
       DescendsFrom(physicsEngine.entities[k].id, root)}

\* C12: a player never has more than 16 parts: whatever handleSplitInput calls
\* were made, the live cells that descend from the player's original cell (the
\* original, and every cell made by splitting it or one of its fragments) are
\* at most 16.
C12_AtMostSixteenParts == Cardinality(LiveCells(FirstPlayer)) <= 16

(***************************************************************************)
(* SplitMergeSystem: merging                                              *)
(***************************************************************************)
mergeTime == 30000

removeEntityFromStoreOnly(pe, id) ==
    [pe EXCEPT !.entities = SelectSeq(@, LAMBDA entity : entity.id # id)]

\* PhysicsEngine.removeEntity(id)
removeEntity(pe, id) ==
    [entities |-> SelectSeq(pe.entities, LAMBDA entity : entity.id # id),
     spatialGrid |-> SpatialHashGrid_remove(pe.spatialGrid, id)]

\* removePlayerSplit(playerId, splitId): the first record with that id is
\* spliced out of the player's array
removePlayerSplit(sms, playerId, splitId) ==
    LET splits == MapGet(sms.playerSplits, playerId, <<>>)
        found == {k \in 1..Len(splits) : splits[k].id = splitId}
        index == CHOOSE k \in found : \A other \in found : k <= other
    IN IF found = {} THEN sms
       ELSE [sms EXCEPT !.playerSplits =
                           MapSet(@, playerId,
                                  SubSeq(splits, 1, index - 1)
                                  \o SubSeq(splits, index + 1, Len(splits)))]

\* mergeCells(parentId, splitId): the parent takes the mass and moves to the
\* centre of mass (the grid keeps the cells of its old place), the split cell
\* leaves the engine and the parent's records
mergeCells(sms, parentId, splitId) ==
    IF ~Has(sms.physicsEngine.entities, parentId)
       \/ ~Has(sms.physicsEngine.entities, splitId)
    THEN sms
    ELSE LET parent == getEntity(sms.physicsEngine, parentId)
             split == getEntity(sms.physicsEngine, splitId)
             totalMass == parent.mass + split.mass
             newPosition ==
                 [x |-> (parent.position.x * parent.mass + split.position.x * split.mass)
                          \div totalMass,
                  y |-> (parent.position.y * parent.mass + split.position.y * split.mass)
                          \div totalMass]
             grown == updateEntityMass(sms.physicsEngine, parentId, totalMass)
             k == IndexOf(grown.entities, parentId)
             moved == [grown EXCEPT !.entities[k].position = newPosition]
         IN removePlayerSplit([sms EXCEPT !.physicsEngine = removeEntity(moved, splitId)],
                              parentId, splitId)

\* attemptMerge(parentId, splitId): a record whose cell or parent is gone is
\* dropped; cells closer than 80% of the sum of their radii merge
attemptMerge(sms, parentId, splitId) ==
    IF ~Has(sms.physicsEngine.entities, parentId)
       \/ ~Has(sms.physicsEngine.entities, splitId)
    THEN removePlayerSplit(sms, parentId, splitId)
    ELSE LET parent == getEntity(sms.physicsEngine, parentId)
             split == getEntity(sms.physicsEngine, splitId)
             dx == parent.position.x - split.position.x
             dy == parent.position.y - split.position.y
             radii == parent.radius + split.radius
         IN IF 100 * (dx * dx + dy * dy) < 64 * radii * radii
            THEN mergeCells(sms, parentId, splitId)
            ELSE sms

\* update(), the loop over one player's array from index i on: a splice moves
\* the later records down while the loop's index goes up
RECURSIVE updateSplits(_, _, _)
updateSplits(sms, playerId, i) ==
    LET splits == MapGet(sms.playerSplits, playerId, <<>>)
    IN IF i > Len(splits) THEN sms
       ELSE LET split == splits[i]
                enabled == ~split.canMerge /\ clientNow - split.createdAt > mergeTime
                flagged == IF enabled
                           THEN [sms EXCEPT !.playerSplits[playerId][i].canMerge = TRUE]
                           ELSE sms
            IN updateSplits(IF split.canMerge \/ enabled
                            THEN attemptMerge(flagged, playerId, split.id)
                            ELSE flagged,
                            playerId, i + 1)

\* update(), the loop over the players.  A cell gets its array after its parent
\* has, and the arrays of two cells of which neither descends from the other
\* reach no common entity: the players are taken shortest id first.
RECURSIVE updatePlayers(_, _)
updatePlayers(sms, players) ==
    IF players = {} THEN sms
    ELSE LET playerId == CHOOSE p \in players : \A q \in players : Len(p) <= Len(q)
         IN updatePlayers(updateSplits(sms, playerId, 1), players \ {playerId})

\* update()
update(sms) == updatePlayers(sms, DOMAIN sms.playerSplits)

Update ==
    /\ LET done == update(SMS)
       IN /\ physicsEngine' = done.physicsEngine
          /\ playerSplits' = done.playerSplits
          /\ lastSplitTime' = done.lastSplitTime
    /\ clientOp' = [op |-> "update", id |-> NoId, ret |-> TRUE]
    /\ UNCHANGED clientNow
    /\ UNCHANGED svars
    /\ UNCHANGED bvars

(***************************************************************************)
(* SpecMerge: one heavy player splits and its cells merge again.  A cell  *)
(* of mass 3200 is born within merging distance of its parent.            *)
(***************************************************************************)
MaxClientSeconds == 33

MergeMasses == {6400 * MassUnit}

\* the instants around the moment a record of the player turns mergeable
MergeInstants(id) ==
    UNION {{MapGet(playerSplits, id, <<>>)[k].createdAt + mergeTime,
            MapGet(playerSplits, id, <<>>)[k].createdAt + mergeTime + 1} :
             k \in 1..Len(MapGet(playerSplits, id, <<>>))}

NextMerge ==
    \/ \E mass \in MergeMasses : CreatePlayer(FirstPlayer, mass)
    \/ \E time \in CooldownInstants(FirstPlayer) \cup MergeInstants(FirstPlayer) :
          time <= T0 + 1000 * MaxClientSeconds /\ ClientClock(time)
    \/ PerformSplit(FirstPlayer, NoDir)
    \/ Update

SpecMerge == Init /\ [][NextMerge]_vars

(***************************************************************************)
(* C13                                                                    *)
(***************************************************************************)
RecordsOf(splitsMap) ==
    UNION {{splitsMap[p][k] : k \in 1..Len(splitsMap[p])} : p \in DOMAIN splitsMap}

StoreIds(pe) == {pe.entities[k].id : k \in 1..Len(pe.entities)}

\* before mergeTime the flag is false and the cell is not merged
YoungStaysApart ==
    /\ \A r \in RecordsOf(playerSplits') :
          clientNow' - r.createdAt < 30000 => ~r.canMerge
    /\ \A r \in RecordsOf(playerSplits) :
          (clientNow - r.createdAt < 30000 /\ r.id \in StoreIds(physicsEngine))
             => r.id \in StoreIds(physicsEngine')

\* a flag that is true stays true
FlagStaysTrue ==
    \A r \in RecordsOf(playerSplits), s \in RecordsOf(playerSplits') :
       (r.canMerge /\ s.id = r.id) => s.canMerge

\* an update() at or past age limit turns the flag of every record of that age on
FlagTurnsOnFrom(limit) ==
    clientOp'.op = "update" =>
       \A r \in RecordsOf(playerSplits), s \in RecordsOf(playerSplits') :
          (clientNow - r.createdAt >= limit /\ s.id = r.id) => s.canMerge

\* C13: a fragment record's canMerge flag is false and the fragment is not
\* merged while now - createdAt is below 30000 ms; the first update() at which
\* now - createdAt >= 30000 sets the flag; a flag that is true never returns
\* to false.
C13_MergeableFromMergeTime ==
    [][YoungStaysApart /\ FlagStaysTrue /\ FlagTurnsOnFrom(30000)]_vars

(***************************************************************************)
(* C14                                                                    *)
(***************************************************************************)
RECURSIVE MassOfCells(_, _)
MassOfCells(pe, ids) ==
    IF ids = {} THEN 0
    ELSE LET id == CHOOSE i \in ids : TRUE
         IN Get(pe.entities, id).mass + MassOfCells(pe, ids \ {id})

GridIds(pe) ==
    DOMAIN pe.spatialGrid.entityCells
    \cup UNION {pe.spatialGrid.grid[cellKey] : cellKey \in DOMAIN pe.spatialGrid.grid}

\* the cells an update() has taken out of the store
MergedCells == StoreIds(physicsEngine) \ StoreIds(physicsEngine')

\* C14: a merge sets the parent's mass to its mass before plus the mass the
\* merged fragment had, and afterwards the fragment's id is in none of the
\* entity store, the spatial index and the parent's list of fragment records.
C14_MergeConservesAndRemoves ==
    [][clientOp'.op = "update" =>
         /\ \A p \in DOMAIN playerSplits :
               (p \in StoreIds(physicsEngine) /\ p \in StoreIds(physicsEngine')) =>
                  LET mine == {playerSplits[p][k].id : k \in 1..Len(playerSplits[p])}
                               \cap MergedCells
                  IN /\ Get(physicsEngine'.entities, p).mass
                          = Get(physicsEngine.entities, p).mass
                            + MassOfCells(physicsEngine, mine)
                     /\ \A k \in 1..Len(playerSplits'[p]) :
                           playerSplits'[p][k].id \notin mine
         /\ MergedCells \cap GridIds(physicsEngine') = {}]_vars

\* an update() has merged the player's only fragment back: one cell of the
\* full mass 6400 is left, in the store and in the grid, and no record
C14_MergedBackToOne ==
    /\ clientOp.op = "update"
    /\ StoreIds(physicsEngine) = {FirstPlayer}
    /\ GridIds(physicsEngine) = {FirstPlayer}
    /\ physicsEngine.entities[1].mass = 6400 * MassUnit
    /\ FirstPlayer \in DOMAIN playerSplits
    /\ playerSplits[FirstPlayer] = <<>>

(***************************************************************************)
(* C15                                                                    *)
(***************************************************************************)
\* the velocity applyMovement gives a cell of that mass for that direction
SteeredVelocity(mass, direction) ==
    [x |-> TruncDiv(normalize(direction)[1] * calculateMaxVelocity(mass), 1000),
     y |-> TruncDiv(normalize(direction)[2] * calculateMaxVelocity(mass), 1000)]

\* C15: a movement command for a player reaches every live cell the player
\* owns: after applyMovementToAllCells(playerId, dir) the main cell and every
\* fragment made by a split of any of the player's cells has its velocity set
\* from dir.
C15_MovementReachesEveryCell ==
    [][clientOp'.op = "applyMovementToAllCells" =>
         \A k \in 1..Len(physicsEngine'.entities) :
            DescendsFrom(physicsEngine'.entities[k].id, clientOp'.id) =>
               physicsEngine'.entities[k].velocity
                  = SteeredVelocity(physicsEngine'.entities[k].mass, clientOp'.ret)]_vars

(***************************************************************************)
(* SpatialHashGrid.query, and SpecGrid: the grid on its own.  A caller    *)
(* keeps a few entities registered (insert), moves or resizes them        *)
(* (update) and takes them out (remove); physicsEngine.entities holds the *)
(* caller's entities, physicsEngine.spatialGrid the grid.                 *)
(***************************************************************************)
\* query(entity): the ids registered in the cells of the entity, but its own
query(spatialGrid, entity) ==
    UNION {MapGet(spatialGrid.grid, cellKey, {}) : cellKey \in Range(getEntityCells(entity))}
    \ {entity.id}

GridIdsUsed == {<<"cell", 1>>, <<"cell", 2>>, <<"cell", 3>>}

\* position and radius in world units: inside one cell, on the corner of four
\* cells, wider than a cell (and over the world's edge), and far from the rest
GridShapes ==
    {[position |-> [x |-> 140 * Res, y |-> 140 * Res], radius |-> 5 * Res],
     [position |-> [x |-> 152 * Res, y |-> 148 * Res], radius |-> 5 * Res],
     [position |-> [x |-> 100 * Res, y |-> 100 * Res], radius |-> 160 * Res],
     [position |-> [x |-> 460 * Res, y |-> 140 * Res], radius |-> 5 * Res]}

GridEntity(id, shape) == [id |-> id, position |-> shape.position, radius |-> shape.radius]

GridInsert(id, shape) ==
    /\ ~Has(physicsEngine.entities, id)
    /\ physicsEngine' =
         [entities |-> Append(physicsEngine.entities, GridEntity(id, shape)),
          spatialGrid |-> SpatialHashGrid_insert(physicsEngine.spatialGrid,
                                                 GridEntity(id, shape))]
    /\ clientOp' = [op |-> "insert", id |-> id, ret |-> TRUE]
    /\ UNCHANGED <<playerSplits, lastSplitTime, clientNow>>
    /\ UNCHANGED svars
    /\ UNCHANGED bvars

GridUpdate(id, shape) ==
    /\ Has(physicsEngine.entities, id)
    /\ physicsEngine' =
         [entities |-> [physicsEngine.entities EXCEPT
                          ![IndexOf(physicsEngine.entities, id)] = GridEntity(id, shape)],
          spatialGrid |-> SpatialHashGrid_update(physicsEngine.spatialGrid,
                                                 GridEntity(id, shape))]
    /\ clientOp' = [op |-> "update", id |-> id, ret |-> TRUE]
    /\ UNCHANGED <<playerSplits, lastSplitTime, clientNow>>
    /\ UNCHANGED svars
    /\ UNCHANGED bvars

GridRemove(id) ==
    /\ Has(physicsEngine.entities, id)
    /\ physicsEngine' =
         [entities |-> SelectSeq(physicsEngine.entities, LAMBDA entity : entity.id # id),
          spatialGrid |-> SpatialHashGrid_remove(physicsEngine.spatialGrid, id)]
    /\ clientOp' = [op |-> "remove", id |-> id, ret |-> TRUE]
    /\ UNCHANGED <<playerSplits, lastSplitTime, clientNow>>
    /\ UNCHANGED svars
    /\ UNCHANGED bvars

NextGrid ==
    \/ \E id \in GridIdsUsed, shape \in GridShapes : GridInsert(id, shape)
    \/ \E id \in GridIdsUsed, shape \in GridShapes : GridUpdate(id, shape)
    \/ \E id \in GridIdsUsed : GridRemove(id)

SpecGrid == Init /\ [][NextGrid]_vars

(***************************************************************************)
(* C16                                                                    *)
(***************************************************************************)
CirclesOverlap(e, f) ==
    LET dx == e.position.x - f.position.x
        dy == e.position.y - f.position.y
    IN dx * dx + dy * dy < (e.radius + f.radius) * (e.radius + f.radius)

Registered == Range(physicsEngine.entities)

\* C16: with every entity registered in the grid at its current position and
\* radius, query(e) contains the id of every other registered entity whose
\* circle overlaps e's circle, entities that span several cells included.
C16_QueryCoversOverlaps ==
    \A e \in Registered, f \in Registered :
       (f.id # e.id /\ CirclesOverlap(e, f)) => f.id \in query(physicsEngine.spatialGrid, e)

\* three entities are registered: one wider than a cell, one on the corner of
\* four cells that it overlaps, one far away that no query of the two returns
C16_WideCornerAndFar ==
    \E e \in Registered, f \in Registered, g \in Registered :
       /\ Len(getEntityCells(e)) > 4
       /\ Len(getEntityCells(f)) = 4
       /\ CirclesOverlap(e, f)
       /\ f.id \in query(physicsEngine.spatialGrid, e)
       /\ e.id \in query(physicsEngine.spatialGrid, f)
       /\ ~CirclesOverlap(e, g) /\ ~CirclesOverlap(f, g)
       /\ g.id \notin query(physicsEngine.spatialGrid, f)
       /\ clientOp.op = "update"

(***************************************************************************)
(* SpecIdle: idle players.  Two players, one of which sends input with    *)
(* and without a direction, and a clock that runs up to the idle limit    *)
(* and one past it.  The loop is started first and once.                  *)
(***************************************************************************)
IdleActions == {MkAction("input", FirstPlayer, <<1, 0>>), MkAction("input", FirstPlayer, NoDir)}
IdleClockSteps == {1, idleTimeout}

NextIdle ==
    \/ \E action \in IdleActions : nextUid < MaxEnqueue /\ EnqueueAction(action)
    \/ \E p \in PlayerIds, pos \in SpawnOrigin : isRunning /\ AddPlayer(p, pos)
    \/ ~isRunning /\ StartLoop("publishA")
    \/ \E d \in IdleClockSteps : isRunning /\ AdvanceClock(d)
    \/ StepBegin(MaxTick - 1)
    \/ \E pos \in SpawnOrigin : DrainOne(pos, FALSE)
    \/ StepPhases

SpecIdle == Init /\ [][NextIdle]_vars

(***************************************************************************)
(* C17                                                                    *)
(***************************************************************************)
Culling == pc = "cleanup"

CulledForIdleness(entity) ==
    entity.type = "player" /\ entity.isAlive /\ entity.id \notin Ids(entities')

NextPublish ==
    \/ ~isRunning /\ StartLoop("publishA")
    \/ \E p \in PlayerIds, pos \in SpawnOrigin :
          isRunning /\ currentTick % snapshotTicks = 0 /\ AddPlayer(p, pos)
    \/ StepBegin(MaxPublishTick)
    \/ StepPhases

SpecPublish == Init /\ [][NextPublish]_vars

(***************************************************************************)
(* C18: for every tick the server publishes exactly one delta carrying    *)
(* that tick number, and a snapshot with the same tick and the same       *)
(* entity content exactly when the tick number is a multiple of 50, sent  *)
(* right after the delta of that tick.                                    *)
(***************************************************************************)
\* the places in the channel's traffic of the world updates of a kind for a tick
WorldUpdates(kind, tick) ==
    {k \in 1..Len(sent) : /\ sent[k].event = "world_update"
                          /\ sent[k].payload.kind = kind
                          /\ sent[k].payload.tick = tick}

\* the step of this tick has called its update callback
TickPublished(tick) == tick < currentTick \/ (tick = currentTick /\ pc = "tick")

C18_DeltaEachTickSnapshotEvery50 ==
    \A tick \in 0..MaxPublishTick :
       /\ Cardinality(WorldUpdates("delta", tick)) = IF TickPublished(tick) THEN 1 ELSE 0
       /\ Cardinality(WorldUpdates("snapshot", tick))
             = IF TickPublished(tick) /\ tick % 50 = 0 THEN 1 ELSE 0
       /\ \A k \in WorldUpdates("snapshot", tick) :
             /\ k > 1
             /\ sent[k - 1].payload.kind = "delta"
             /\ sent[k - 1].room = sent[k].room
             /\ sent[k - 1].payload.tick = tick
             /\ sent[k - 1].payload.entities = sent[k].payload.entities

\* ticks 0 to 50 are done: two snapshots, for ticks 0 and 50, the second with a player
C18_TwoSnapshotsInFiftyOneTicks ==
    /\ currentTick = 51
    /\ Len(sent) = 53
    /\ WorldUpdates("snapshot", 50) = {53}
    /\ WorldUpdates("snapshot", 1) = {}
    /\ sent[53].payload.entities # <<>>


(***************************************************************************)
(* SpecBoundary: two rooms of one server process.  A player joins the     *)
(* first room, then player_action broadcasts of every shape arrive on     *)
(* both channels, and time passes.                                        *)
(***************************************************************************)
GoodInput(playerId) == MkPayload("input", playerId, "number", "object", <<1, 0>>, 0, FALSE)
GoodSplit(playerId) == MkPayload("split", playerId, "number", "undefined", NoDir, 0, FALSE)

\* the payload with a filler that makes its JSON text n characters long
PadTo(payload, n) ==
    [payload EXCEPT !.pad = n + 1 - jsonLength([payload EXCEPT !.pad = 1])]

OversizedPayloads ==
    {PadTo(GoodInput(FirstPlayer), maxPayloadSize + 1),
     PadTo(MkPayload("spawn", FirstPlayer, "number", "object", <<1, 0>>, 0, FALSE),
           maxPayloadSize + 1)}

\* an unknown type, no ts, a property too many, an empty and an overlong playerId,
\* null, undefined
InvalidPayloads ==
    {MkPayload("spawn", FirstPlayer, "number", "undefined", NoDir, 0, FALSE),
     MkPayload("input", FirstPlayer, "undefined", "object", <<1, 0>>, 0, FALSE),
     MkPayload("split", FirstPlayer, "number", "undefined", NoDir, 0, TRUE),
     MkPayload("split", EmptyId, "number", "undefined", NoDir, 0, FALSE),
     MkPayload("split", LongId, "number", "undefined", NoDir, 0, FALSE),
     NullPayload, UndefinedPayload}

GoodPayloads ==
    {GoodInput(FirstPlayer), GoodSplit(SecondPlayer),
     PadTo(GoodInput(FirstPlayer), maxPayloadSize)}

BoundaryClockSteps == {windowMs, blockedFor}

NextBoundary ==
    \/ \E room \in Rooms, payload \in GoodPayloads \cup OversizedPayloads \cup InvalidPayloads :
          entities # <<>> /\ HandlePlayerAction(room, payload)
    \/ \E pos \in SpawnOrigin : entities = <<>> /\ AddPlayer(FirstPlayer, pos)
    \/ \E d \in BoundaryClockSteps : AdvanceClock(d)

SpecBoundary == Init /\ [][NextBoundary]_vars

(***************************************************************************)
(* C19: a player action received on a room channel reaches the game's     *)
(* action queue only after passing, in this order, the payload-size       *)
(* check, the schema validation and the rate-limit check; an oversized,   *)
(* schema-invalid or throttled action is never enqueued and changes no    *)
(* simulation state.                                                      *)
(***************************************************************************)
Oversized(payload) == payload.kind # "undefined" /\ jsonLength(payload) > 8192
SchemaInvalid(payload) == ~validatePlayerAction(payload)

C19_OnlyCheckedActionsAreEnqueued ==
    [][received' # received =>
          LET payload == handled'.action
              throttled == Len(sent') > Len(sent)
              queued == actionQueue' # actionQueue \/ peerQueue' # peerQueue
              rejected == Oversized(payload) \/ SchemaInvalid(payload) \/ throttled
          IN /\ queued => /\ handled'.checks = <<"size", "schema", "rate">>
                          /\ ~rejected
             /\ rejected => /\ ~queued
                            /\ UNCHANGED <<svars, cvars, peerQueue>>
             /\ Oversized(payload) => handled'.checks = <<"size">>
             /\ Oversized(payload) \/ SchemaInvalid(payload)
                   => UNCHANGED <<rateLimits, sent>>
             /\ ~rejected => queued]_vars

\* two actions went through, in one room each, and a third has been throttled
C19_ThirdActionThrottled ==
    /\ handled.action = GoodInput(FirstPlayer)
    /\ handled.checks = <<"size", "schema", "rate">>
    /\ ~handled.enqueued
    /\ Len(sent) = 1
    /\ sent[1].event = "system"
    /\ Len(actionQueue) = 1
    /\ Len(peerQueue) = 1


(***************************************************************************)
(* C20: rate-limiting state is keyed per (arena, actor): whether a        *)
(* message from an actor in one room is accepted does not depend on the   *)
(* messages the same actor id has sent in any other room.  So a           *)
(* well-formed action is accepted whenever the room it arrives in has     *)
(* taken fewer actions of that actor in the last second than the limit    *)
(* and has never throttled that actor.                                    *)
(***************************************************************************)
\* the actions of a room's game queue; no step runs in SpecBoundary, so they are
\* all the actions the room has accepted
RoomQueue(room) == IF room = RoomA THEN actionQueue ELSE peerQueue

\* the actions of the actor the room accepted less than a window ago
OwnRecent(room, playerId) ==
    SelectSeq(RoomQueue(room),
              LAMBDA a : a.playerId = playerId /\ now - a.serverTimestamp < windowMs)

\* the room has sent the actor a throttle notice
ThrottledIn(room, playerId) ==
    \E k \in 1..Len(sent) : /\ sent[k].room = room
                            /\ sent[k].event = "system"
                            /\ sent[k].payload.playerId = playerId

C20_AcceptanceIsPerRoom ==
    [][received' # received =>
          LET payload == handled'.action
              room == handled'.room
          IN (/\ ~Oversized(payload)
              /\ ~SchemaInvalid(payload)
              /\ Len(OwnRecent(room, payload.playerId)) < maxMsgsPerSecond
              /\ ~ThrottledIn(room, payload.playerId))
             => handled'.enqueued]_vars


(***************************************************************************)
(* SpecRate: checkRateLimit called for the messages of two players, at    *)
(* instants a millisecond, most of a window and most of a block apart.    *)
(***************************************************************************)
\* checkRateLimit(playerId), for a message that passed the size and schema checks
CheckRateLimit(playerId) ==
    LET limit == checkRateLimit(rateLimits, playerId, now)
    IN /\ received < MaxChecks
       /\ received' = received + 1
       /\ rateLimits' = limit.rateLimits
       /\ admitted' = IF limit.ret
                      THEN MapSet(admitted, playerId,
                                  Append(MapGet(admitted, playerId, <<>>), now))
                      ELSE admitted
       /\ UNCHANGED <<sent, lastActivity, peerQueue, handled, rvars, lvars>>
       /\ UNCHANGED <<svars, cvars>>

RateClockSteps == {1, windowMs - 1, blockedFor - windowMs}

\* time passes between two messages
RateClock(d) ==
    /\ clockSteps < MaxRateClockSteps
    /\ clockSteps' = clockSteps + 1
    /\ now' = now + d
    /\ UNCHANGED <<entities, actionQueue, isRunning, currentTick, stats, gameLoopInterval,
                   onUpdateCallback, timers, pc, processedCount, ci, cj, nextUid, nextUuid,
                   nextTimer, accepted, applied, phaseLog, lastOp, deltas, inputSeen>>
    /\ UNCHANGED <<cvars, bvars>>

NextRate ==
    \/ \E p \in PlayerIds : CheckRateLimit(p)
    \/ \E d \in RateClockSteps : RateClock(d)

SpecRate == Init /\ [][NextRate]_vars

(***************************************************************************)
(* C21: checkRateLimit accepts at most maxMsgsPerSecond messages of one   *)
(* player within any time window shorter than 1000 ms, for every arrival  *)
(* pattern, including arrivals during and right after a 3-second block.   *)
(***************************************************************************)
\* how many of the times lie in the 1000 ms that start at the time `from`
InWindowFrom(times, from) ==
    Cardinality({k \in 1..Len(times) : times[k] >= from /\ times[k] - from < 1000})

C21_AtMostLimitPerWindow ==
    \A p \in DOMAIN admitted :
       \A k \in 1..Len(admitted[p]) :
          InWindowFrom(admitted[p], admitted[p][k]) <= maxMsgsPerSecond

\* a player filled a window, was blocked, was turned away during the block, and has
\* filled a window again from the instant the block ended
C21_BlockedThenAdmittedAgain ==
    /\ FirstPlayer \in DOMAIN admitted
    /\ Len(admitted[FirstPlayer]) = 2 * maxMsgsPerSecond
    /\ rateLimits[FirstPlayer].blockedUntil = now
    /\ received > 2 * maxMsgsPerSecond + 1


(***************************************************************************)
(* The life of a room: ensureRoom, the channel's status callback and      *)
(* cleanupInactiveRooms.  A room is kept with what these read and write:  *)
(* its id, isActive, lastActivity, whether its game's loop runs           *)
(* (gameState.isRunning of its own createGame instance) and where its     *)
(* channel is.                                                            *)
(***************************************************************************)
inactivityThreshold == 300000

\* createRoomData(roomId), with the game and the channel ensureRoom gives it
createRoomData(roomId) ==
    [roomId |-> roomId, isActive |-> FALSE, lastActivity |-> now, isRunning |-> FALSE,
     channel |-> "subscribing"]

\* ensureRoom(roomId) up to its return (the room is stored) or to its await
EnsureRoom(roomId) ==
    /\ Idle
    /\ IF roomId \in DOMAIN storedRooms
       THEN /\ roomObjects' = [roomObjects EXCEPT ![storedRooms[roomId]].lastActivity = now]
            /\ UNCHANGED ensureCalls
       ELSE /\ Len(roomObjects) < MaxRoomObjects
            /\ roomObjects' = Append(roomObjects, createRoomData(roomId))
            /\ ensureCalls' = ensureCalls \cup {Len(roomObjects) + 1}
    /\ UNCHANGED storedRooms
    /\ UNCHANGED <<rateLimits, sent, lastActivity, peerQueue, received, handled, admitted,
                 lvars>>
    /\ UNCHANGED <<svars, cvars>>

\* ensureRoom after its await: subscribe gave the channel back, the room is stored
EnsureRoomResume(room) ==
    /\ Idle
    /\ room \in ensureCalls
    /\ ensureCalls' = ensureCalls \ {room}
    /\ storedRooms' = MapSet(storedRooms, roomObjects[room].roomId, room)
    /\ UNCHANGED roomObjects
    /\ UNCHANGED <<rateLimits, sent, lastActivity, peerQueue, received, handled, admitted,
                 lvars>>
    /\ UNCHANGED <<svars, cvars>>

\* the callback ensureRoom gave room.channel.subscribe, called with a status;
\* startLoop does nothing when the room's own game is running already
ChannelStatus(room, status) ==
    /\ Idle
    /\ room \in 1..Len(roomObjects)
    /\ roomObjects[room].channel # "unsubscribed"
    /\ roomObjects' =
          [roomObjects EXCEPT ![room] =
              CASE status = "SUBSCRIBED" ->
                      [@ EXCEPT !.isActive = TRUE, !.isRunning = TRUE, !.channel = "joined"]
                [] status = "CHANNEL_ERROR" -> [@ EXCEPT !.isActive = FALSE]
                [] OTHER -> @]
    /\ UNCHANGED <<storedRooms, ensureCalls>>
    /\ UNCHANGED <<rateLimits, sent, lastActivity, peerQueue, received, handled, admitted,
                 lvars>>
    /\ UNCHANGED <<svars, cvars>>

\* cleanupInactiveRooms(), run by its interval timer
CleanupInactiveRooms ==
    LET inactive == {roomId \in DOMAIN storedRooms :
                        now - roomObjects[storedRooms[roomId]].lastActivity
                            > inactivityThreshold}
        closed == {storedRooms[roomId] : roomId \in inactive}
    IN /\ Idle
       /\ inactive # {}
       /\ roomObjects' = [room \in 1..Len(roomObjects) |->
                            IF room \in closed
                            THEN [roomObjects[room] EXCEPT !.isRunning = FALSE,
                                                           !.channel = "unsubscribed"]
                            ELSE roomObjects[room]]
       /\ storedRooms' = [roomId \in DOMAIN storedRooms \ inactive |-> storedRooms[roomId]]
       /\ UNCHANGED ensureCalls
       /\ UNCHANGED <<rateLimits, sent, lastActivity, peerQueue, received, handled, admitted,
                 lvars>>
       /\ UNCHANGED <<svars, cvars>>

(***************************************************************************)
(* SpecRooms: requests to start either room arrive at any time, also      *)
(* while an earlier one is suspended; channels report their status; rooms *)
(* left alone for five minutes are cleaned up.                            *)
(***************************************************************************)
ChannelStatuses == {"SUBSCRIBED", "CHANNEL_ERROR", "TIMED_OUT"}
RoomClockSteps == {inactivityThreshold + 1}

NextRooms ==
    \/ \E roomId \in Rooms : EnsureRoom(roomId)
    \/ \E room \in ensureCalls : EnsureRoomResume(room)
    \/ \E room \in 1..Len(roomObjects), status \in ChannelStatuses : ChannelStatus(room, status)
    \/ CleanupInactiveRooms
    \/ \E d \in RoomClockSteps : AdvanceClock(d)

SpecRooms == Init /\ [][NextRooms]_vars

(***************************************************************************)
(* C22: for each room id at most one game instance ever has a running     *)
(* tick loop, under every interleaving of concurrent ensureRoom calls for *)
(* the same room id and channel status callbacks; and every game whose    *)
(* loop was started is the one stored in serverState.rooms (once the call *)
(* that made it has returned), so that cleanup and shutdown stop it.      *)
(***************************************************************************)
RunningFor(roomId) ==
    {room \in 1..Len(roomObjects) :
        roomObjects[room].roomId = roomId /\ roomObjects[room].isRunning}

C22_OneStoredLoopPerRoom ==
    \A roomId \in Rooms :
       /\ Cardinality(RunningFor(roomId)) <= 1
       /\ \A room \in RunningFor(roomId) :
             room \notin ensureCalls
                => roomId \in DOMAIN storedRooms /\ storedRooms[roomId] = room


(***************************************************************************)
(* PhysicsEngine: eating, moving, clearing                                *)
(***************************************************************************)
\* PhysicsEngine.checkCollision(entity1, entity2): distance < radius1 + radius2
PhysicsEngine_checkCollision(entity1, entity2) ==
    LET dx == entity1.position.x - entity2.position.x
        dy == entity1.position.y - entity2.position.y
        reach == entity1.radius + entity2.radius
    IN dx * dx + dy * dy < reach * reach

\* processEatingCollision(predatorId, preyId): the engine afterwards and the result
processEatingCollision(pe, predatorId, preyId) ==
    IF ~Has(pe.entities, predatorId) \/ ~Has(pe.entities, preyId)
    THEN [physicsEngine |-> pe, ret |-> FALSE]
    ELSE LET predator == getEntity(pe, predatorId)
             prey == getEntity(pe, preyId)
         IN IF predator.radius <= prey.radius
            THEN [physicsEngine |-> pe, ret |-> FALSE]
            ELSE IF PhysicsEngine_checkCollision(predator, prey)
                 THEN [physicsEngine |->
                          [updateEntityMass(pe, predatorId, predator.mass + prey.mass)
                             EXCEPT !.entities =
                                       SelectSeq(@, LAMBDA entity : entity.id # preyId)],
                       ret |-> TRUE]
                 ELSE [physicsEngine |-> pe, ret |-> FALSE]

\* updatePositions(deltaTime), from the k-th entity of the store on
RECURSIVE updatePositionsFrom(_, _, _)
updatePositionsFrom(pe, k, deltaTime) ==
    IF k > Len(pe.entities) THEN pe
    ELSE LET old == pe.entities[k]
             entity == [old EXCEPT
                          !.position = [x |-> old.position.x
                                              + TruncDiv(old.velocity.x * deltaTime * Res, 1000),
                                        y |-> old.position.y
                                              + TruncDiv(old.velocity.y * deltaTime * Res, 1000)],
                          !.velocity = [x |-> TruncDiv(old.velocity.x * 95, 100),
                                        y |-> TruncDiv(old.velocity.y * 95, 100)]]
         IN updatePositionsFrom([entities |-> [pe.entities EXCEPT ![k] = entity],
                                 spatialGrid |-> SpatialHashGrid_update(pe.spatialGrid, entity)],
                                k + 1, deltaTime)

updatePositions(pe, deltaTime) == updatePositionsFrom(pe, 1, deltaTime)

\* clear(): SpatialHashGrid.clear() and entities.clear()
clear(pe) == [entities |-> <<>>, spatialGrid |-> [grid |-> EmptyMap, entityCells |-> EmptyMap]]

(***************************************************************************)
(* SpecEngine: the public operations of one PhysicsEngine, on a player, a *)
(* rival and a pellet that lie within reach of one another or far apart.  *)
(* The game creates its entities, then plays.                             *)
(***************************************************************************)
Pellet == <<"pellet", 1>>
EngineIds == {FirstPlayer, SecondPlayer, Pellet}
\* a pellet; a player; a player a twentieth heavier; a player more than a tenth heavier
EngineMasses == {1 * MassUnit, 100 * MassUnit, 105 * MassUnit, 111 * MassUnit}
EnginePositions == {ClientSpawn, [x |-> 103 * Res, y |-> 100 * Res],
                    [x |-> 400 * Res, y |-> 100 * Res]}
\* a frame of the 60 Hz loop, in ms
FrameTimes == {16}

CreateEntity(id, mass, position) ==
    /\ physicsEngine' = PhysicsEngine_createEntity(physicsEngine, id,
                                                   IF id = Pellet THEN "pellet" ELSE "player",
                                                   mass, position)
    /\ clientOp' = [op |-> "createEntity", id |-> id, ret |-> TRUE]
    /\ UNCHANGED <<playerSplits, lastSplitTime, clientNow>>
    /\ UNCHANGED svars
    /\ UNCHANGED bvars

UpdateEntityMass(id, mass) ==
    /\ physicsEngine' = updateEntityMass(physicsEngine, id, mass)
    /\ clientOp' = [op |-> "updateEntityMass", id |-> id, ret |-> TRUE]
    /\ UNCHANGED <<playerSplits, lastSplitTime, clientNow>>
    /\ UNCHANGED svars
    /\ UNCHANGED bvars

ProcessEatingCollision(predatorId, preyId) ==
    LET call == processEatingCollision(physicsEngine, predatorId, preyId)
    IN /\ physicsEngine' = call.physicsEngine
       /\ clientOp' = [op |-> "processEatingCollision", id |-> preyId, ret |-> call.ret,
                       predatorId |-> predatorId]
       /\ UNCHANGED <<playerSplits, lastSplitTime, clientNow>>
       /\ UNCHANGED svars
       /\ UNCHANGED bvars

\* applyMovement(id, direction) and the frame's updatePositions(deltaTime)
UpdatePositions(id, direction, deltaTime) ==
    /\ clientNow < T0 + MaxFrames * deltaTime
    /\ clientNow' = clientNow + deltaTime
    /\ physicsEngine' = updatePositions(applyMovement(physicsEngine, id, direction), deltaTime)
    /\ clientOp' = [op |-> "updatePositions", id |-> id, ret |-> TRUE]
    /\ UNCHANGED <<playerSplits, lastSplitTime>>
    /\ UNCHANGED svars
    /\ UNCHANGED bvars

RemoveEntity(id) ==
    /\ physicsEngine' = removeEntity(physicsEngine, id)
    /\ clientOp' = [op |-> "removeEntity", id |-> id, ret |-> TRUE]
    /\ UNCHANGED <<playerSplits, lastSplitTime, clientNow>>
    /\ UNCHANGED svars
    /\ UNCHANGED bvars

Clear ==
    /\ physicsEngine' = clear(physicsEngine)
    /\ clientOp' = [op |-> "clear", id |-> NoId, ret |-> TRUE]
    /\ UNCHANGED <<playerSplits, lastSplitTime, clientNow>>
    /\ UNCHANGED svars
    /\ UNCHANGED bvars

NextEngine ==
    \/ \E id \in EngineIds, mass \in EngineMasses, position \in EnginePositions :
          /\ clientOp.op \in {"constructor", "createEntity"}
          /\ ~Has(physicsEngine.entities, id)
          /\ (id = Pellet) = (mass = 1 * MassUnit)
          /\ CreateEntity(id, mass, position)
    \/ \E id \in {FirstPlayer, UnknownId} :
          /\ clientOp.op # "updateEntityMass"
          /\ UpdateEntityMass(id, 111 * MassUnit)
    \/ \E predatorId \in EngineIds \ {Pellet}, preyId \in EngineIds :
          ProcessEatingCollision(predatorId, preyId)
    \/ \E deltaTime \in FrameTimes : UpdatePositions(FirstPlayer, <<1, 0>>, deltaTime)
    \/ \E id \in EngineIds : Has(physicsEngine.entities, id) /\ RemoveEntity(id)
    \/ physicsEngine.entities # <<>> /\ Clear

SpecEngine == Init /\ [][NextEngine]_vars

(***************************************************************************)
(* C23: in the client PhysicsEngine the spatial index and the entity      *)
(* store hold the same set of ids after every public operation: an id is  *)
(* registered in some grid cell if and only if an entity with that id is  *)
(* in the store, in particular after a prey is eaten.                     *)
(***************************************************************************)
C23_GridAndStoreHoldSameIds == GridIds(physicsEngine) = StoreIds(physicsEngine)


(***************************************************************************)
(* C29: the client engine and the server engine apply the same eating     *)
(* eligibility: for every pair of overlapping entities, the client's      *)
(* processEatingCollision(predator, prey) performs the eat exactly when   *)
(* the server's canEat(predator, prey) is true, that is only when         *)
(* predator.mass > 1.1 * prey.mass.                                       *)
(***************************************************************************)
C29_ClientEatsWhenServerWould ==
    [][(/\ clientOp'.op = "processEatingCollision"
        /\ Has(physicsEngine.entities, clientOp'.predatorId)
        /\ Has(physicsEngine.entities, clientOp'.id)
        /\ clientOp'.predatorId # clientOp'.id
        /\ PhysicsEngine_checkCollision(getEntity(physicsEngine, clientOp'.predatorId),
                                        getEntity(physicsEngine, clientOp'.id)))
       => (clientOp'.ret <=> canEat(getEntity(physicsEngine, clientOp'.predatorId),
                                    getEntity(physicsEngine, clientOp'.id)))]_vars

(***************************************************************************)
(* SpecWall: the east wall.  One player spawns as far east as             *)
(* generateRandomPosition allows, runs east and splits; once it has split *)
(* the clock may run out a fragment's lifetime.  The loop is started once.*)
(***************************************************************************)
\* the largest whole x below radius + random() * (width - 2 * radius), radius 25
WallSpawns == {<<worldWidth - 25 - 1, 100>>}
WallActions == {MkAction("input", FirstPlayer, <<1, 0>>), MkAction("split", FirstPlayer, NoDir)}
WallClockSteps == {fragmentLifetime + 1}

NextWall ==
    \/ \E action \in WallActions : entities # <<>> /\ EnqueueAction(action)
    \/ \E pos \in WallSpawns : isRunning /\ entities = <<>> /\ AddPlayer(FirstPlayer, pos)
    \/ ~isRunning /\ StartLoop("publishA")
    \/ \E d \in WallClockSteps : Len(entities) > 1 /\ AdvanceClock(d)
    \/ StepBegin(MaxWallTick)
    \/ \E pos \in WallSpawns : DrainOne(pos, FALSE)
    \/ StepPhases

SpecWall == Init /\ [][NextWall]_vars

\* the far limits of a centre of the given radius
EastLimit(radius) == worldWidth * Res - radius
SouthLimit(radius) == worldHeight * Res - radius

(***************************************************************************)
(* C24                                                                    *)
(***************************************************************************)
\* the entity's position after integration and before the clamp
Integrated(entity) == integratePosition(entity)

ClampChanges(entity) ==
    LET newPos == Integrated(entity)
        clampedPos == clampToWorld(newPos, entity.radius)
    IN clampedPos.x # newPos.x \/ clampedPos.y # newPos.y

\* C24: in the physics pass of a tick an entity whose integrated position the
\* clamp to the world bounds changes leaves the pass with its damped velocity
\* halved, and an entity whose position the clamp leaves alone leaves it with
\* its velocity damped and no more.
C24_ClampHalvesVelocity ==
    [][pc = "physics" =>
         \A k \in 1..Len(entities) :
            entities[k].type # "pellet" =>
               LET vx == applyDamping(entities[k].vx)
                   vy == applyDamping(entities[k].vy)
               IN IF ClampChanges(entities[k])
                  THEN /\ entities'[k].vx = TruncDiv(vx, 2)
                       /\ entities'[k].vy = TruncDiv(vy, 2)
                  ELSE /\ entities'[k].vx = vx
                       /\ entities'[k].vy = vy]_vars

(***************************************************************************)
(* C25                                                                    *)
(***************************************************************************)
InWorld(entity) ==
    /\ entity.radius <= entity.x /\ entity.x <= EastLimit(entity.radius)
    /\ entity.radius <= entity.y /\ entity.y <= SouthLimit(entity.radius)

FitsInWorld(entity) ==
    2 * entity.radius <= worldWidth * Res /\ 2 * entity.radius <= worldHeight * Res

\* C25: the physics pass of a tick leaves every entity that is not a pellet and
\* whose diameter fits in the world with radius <= x <= width - radius and
\* radius <= y <= height - radius, wherever it was and however fast it moved.
C25_PhysicsKeepsEntitiesInWorld ==
    [][pc = "physics" =>
         \A k \in 1..Len(entities') :
            (entities'[k].type # "pellet" /\ FitsInWorld(entities'[k]))
               => InWorld(entities'[k])]_vars

\* the delta of the tick before shows the player alone and so close to the wall
\* that its split of this tick put the fragment past it; the physics pass of
\* this tick has run and the fragment stands at the east limit
C25_FragmentSpawnedPastWall ==
    /\ pc = "collisions"
    /\ phaseLog = <<"drain", "physics">>
    /\ deltas # <<>>
    /\ LET last == deltas[Len(deltas)].delta
       IN /\ last.tick = currentTick - 1
          /\ Len(last.entities) = 1
          /\ \E k \in 1..Len(entities) :
                /\ entities[k].type = "fragment"
                /\ entities[k].ownerId = last.entities[1].id
                /\ last.entities[1].pos[1] * Res - Res \div 2 + 2 * entities[k].radius
                      > worldWidth * Res
                /\ entities[k].x = EastLimit(entities[k].radius)

(***************************************************************************)
(* C26                                                                    *)
(***************************************************************************)
SpeedSquared(entity) == entity.vx * entity.vx + entity.vy * entity.vy

WithinVMax(entity) ==
    SpeedSquared(entity) <= vMaxFromMass(entity.mass) * vMaxFromMass(entity.mass)

\* C26: between two ticks no entity moves faster than vMaxFromMass of the mass
\* it has at that moment, whatever inputs, splits and eats came before.
C26_SpeedWithinVMaxOfMass ==
    Idle => \A k \in 1..Len(entities) : WithinVMax(entities[k])

(***************************************************************************)
(* C27                                                                    *)
(***************************************************************************)
\* a fragment is the trace of a successful split: its owner split at createdAt
SplitSince(playerId, time) ==
    \E k \in 1..Len(entities) :
       /\ entities[k].type = "fragment"
       /\ entities[k].ownerId = playerId
       /\ entities[k].createdAt > time

\* C27: a split action that the queue hands to the engine less than 1000 ms
\* after a successful split of the same player changes no entity: no fragment
\* is created and the player keeps its mass.
C27_SplitInCooldownRejected ==
    [][(/\ pc = "drain"
        /\ actionQueue # <<>>
        /\ QueueTake(actionQueue).type = "split"
        /\ SplitSince(QueueTake(actionQueue).playerId, now - splitCooldown))
          => entities' = entities]_vars

(***************************************************************************)
(* C28                                                                    *)
(***************************************************************************)
\* cleanupDeadEntities' test of a fragment's lifetime
Expired(entity) ==
    /\ entity.type = "fragment"
    /\ entity.lifetime # 0
    /\ now - entity.createdAt > entity.lifetime

\* the mass of the owner's live fragments whose lifetime has run out
ExpiredMass(ownerId) ==
    LET expired == SelectSeq(entities,
                             LAMBDA e : Expired(e) /\ e.isAlive /\ e.ownerId = ownerId)
    IN SumSeq([k \in 1..Len(expired) |-> expired[k].mass])

\* C28: the cleanup that removes a live fragment because its 30 seconds have
\* run out leaves the fragment's owner, if it stays in the game, heavier by the
\* mass of the fragments removed.
C28_ExpiredFragmentMergesIntoOwner ==
    [][pc = "cleanup" =>
         \A k \in 1..Len(entities) :
            (entities[k].type = "player" /\ ~shouldRemove(entities[k])
               /\ ExpiredMass(entities[k].id) > 0)
            => /\ Has(entities', entities[k].id)
               /\ Get(entities', entities[k].id).mass
                     = entities[k].mass + ExpiredMass(entities[k].id)]_vars

(***************************************************************************)
(* GameEngine: start(), stop() and gameLoop.  requestAnimationFrame keeps *)
(* the callbacks it was given; the browser runs all of them at its next   *)
(* frame, and a callback registered while a frame runs waits for the      *)
(* frame after.  The engine is configured with maxPellets 0 and no input  *)
(* direction is held, so updateGame is the physics update and the         *)
(* split/merge update.                                                    *)
(***************************************************************************)
\* PhysicsEngine.update's limit of a step: this.deltaTime * 2, deltaTime = 1000 / 60
maxUpdateDelta == 2000 \div 60

\* PhysicsEngine.update() at the time clientNow
PhysicsEngine_update(pe) == updatePositions(pe, Min(clientNow - lastUpdate, maxUpdateDelta))

\* start()
EngineStart ==
    /\ frameBatch = 0
    /\ engineIsRunning \/ engineStarts < MaxStarts
    /\ IF engineIsRunning
       THEN /\ clientOp' = [op |-> "start", id |-> NoId, ret |-> FALSE]
            /\ UNCHANGED lvars
       ELSE /\ engineIsRunning' = TRUE
            /\ lastFrameTime' = 0
            /\ pendingFrames' = pendingFrames + 1
            /\ engineStarts' = engineStarts + 1
            /\ clientOp' = [op |-> "start", id |-> NoId, ret |-> TRUE]
            /\ UNCHANGED <<lastUpdate, frameBatch, updatesInFrame>>
    /\ UNCHANGED <<physicsEngine, playerSplits, lastSplitTime, clientNow>>
    /\ UNCHANGED svars
    /\ UNCHANGED <<rateLimits, sent, lastActivity, peerQueue, received, handled, admitted, rvars>>

\* stop()
EngineStop ==
    /\ frameBatch = 0
    /\ engineIsRunning' = FALSE
    /\ clientOp' = [op |-> "stop", id |-> NoId, ret |-> TRUE]
    /\ UNCHANGED <<lastFrameTime, lastUpdate, pendingFrames, frameBatch, updatesInFrame,
                   engineStarts>>
    /\ UNCHANGED <<physicsEngine, playerSplits, lastSplitTime, clientNow>>
    /\ UNCHANGED svars
    /\ UNCHANGED <<rateLimits, sent, lastActivity, peerQueue, received, handled, admitted, rvars>>

\* the browser's next frame, deltaTime after the last: it takes the callbacks
\* that are registered
AnimationFrame(deltaTime) ==
    /\ frameBatch = 0
    /\ pendingFrames > 0
    /\ clientNow < T0 + MaxFrames * deltaTime
    /\ clientNow' = clientNow + deltaTime
    /\ frameBatch' = pendingFrames
    /\ pendingFrames' = 0
    /\ updatesInFrame' = 0
    /\ clientOp' = [op |-> "animationFrame", id |-> NoId, ret |-> TRUE]
    /\ UNCHANGED <<engineIsRunning, lastFrameTime, lastUpdate, engineStarts>>
    /\ UNCHANGED <<physicsEngine, playerSplits, lastSplitTime>>
    /\ UNCHANGED svars
    /\ UNCHANGED <<rateLimits, sent, lastActivity, peerQueue, received, handled, admitted, rvars>>

\* gameLoop(currentTime), one of the callbacks of the frame
GameLoop ==
    /\ frameBatch > 0
    /\ frameBatch' = frameBatch - 1
    /\ IF ~engineIsRunning
       THEN /\ clientOp' = [op |-> "gameLoop", id |-> NoId, ret |-> FALSE]
            /\ UNCHANGED <<lastFrameTime, lastUpdate, pendingFrames, updatesInFrame>>
            /\ UNCHANGED <<physicsEngine, playerSplits, lastSplitTime>>
       ELSE LET moved == PhysicsEngine_update(physicsEngine)
                done == update([SMS EXCEPT !.physicsEngine = moved])
            IN /\ lastFrameTime' = clientNow
               /\ lastUpdate' = clientNow
               /\ physicsEngine' = done.physicsEngine
               /\ playerSplits' = done.playerSplits
               /\ lastSplitTime' = done.lastSplitTime
               /\ updatesInFrame' = updatesInFrame + 1
               /\ pendingFrames' = pendingFrames + 1
               /\ clientOp' = [op |-> "gameLoop", id |-> NoId, ret |-> TRUE]
    /\ UNCHANGED <<engineIsRunning, engineStarts, clientNow>>
    /\ UNCHANGED svars
    /\ UNCHANGED <<rateLimits, sent, lastActivity, peerQueue, received, handled, admitted, rvars>>

(***************************************************************************)
(* SpecLoop: the game creates its player, then the page starts and stops  *)
(* the engine and the player presses split while the browser runs its     *)
(* frames.                                                                *)
(***************************************************************************)
NextLoop ==
    \/ CreatePlayer(FirstPlayer, FullMass)
    \/ Has(physicsEngine.entities, FirstPlayer) /\ EngineStart
    \/ Has(physicsEngine.entities, FirstPlayer) /\ EngineStop
    \/ \E deltaTime \in FrameTimes : AnimationFrame(deltaTime)
    \/ GameLoop
    \/ \E direction \in SplitDirections :
          frameBatch = 0 /\ HandleSplitInput(FirstPlayer, direction)

SpecLoop == Init /\ [][NextLoop]_vars

(***************************************************************************)
(* C30                                                                    *)
(***************************************************************************)
\* C30: whatever start() and stop() calls and animation frames came before, at
\* most one gameLoop callback is waiting to run, and updateGame has run at most
\* once in a frame.
C30_OneLoopCallbackPending ==
    /\ pendingFrames + frameBatch <= 1
    /\ updatesInFrame <= 1

(***************************************************************************)
(* C31                                                                    *)
(***************************************************************************)
\* the tick field of the delta the running step will emit: generateDelta reads
\* currentTick, which step() increments after it
TickOfRunningStep == currentTick

\* C31: the step that hands an action to processAction emits a delta whose tick
\* is the action's targetTick, or a later one when the budget deferred the
\* action; never a smaller one.
C31_AppliedNoEarlierThanTargetTick ==
    [][(pc = "drain" /\ actionQueue # <<>>)
          => QueueTake(actionQueue).targetTick <= TickOfRunningStep]_vars

(***************************************************************************)
(* SpecMasses: every operation that changes a mass.  The client's player  *)
(* is alone and splits and merges, or it has a rival and a pellet to eat, *)
(* or the server's arena runs with players that split and eat; the two    *)
(* engines share no state, so each runs while the other stands still.     *)
(***************************************************************************)
ClientUntouched == clientOp.op = "constructor"

\* the server's arena with players that only split: halves eat halves' halves
FeedActions == {MkAction("split", p, NoDir) : p \in PlayerIds}

NextFeed ==
    \/ \E action \in FeedActions : entities # <<>> /\ EnqueueAction(action)
    \/ \E p \in PlayerIds, pos \in SpawnPositions : AddPlayer(p, pos)
    \/ ~isRunning /\ StartLoop("publishA")
    \/ StepBegin(MaxTick - 1)
    \/ \E pos \in SpawnPositions : DrainOne(pos, FALSE)
    \/ StepPhases

Others == StoreIds(physicsEngine) \cap {SecondPlayer, Pellet}
\* the calls the game makes once the player has a rival or a pellet
RivalOps == {"updateEntityMass", "processEatingCollision", "updatePositions", "removeEntity",
             "clear"}

NextMasses ==
    \/ ServerUntouched /\ Others = {} /\ clientOp.op \notin RivalOps /\ NextMerge
    \/ /\ ServerUntouched
       /\ Others # {} \/ FirstPlayer \notin StoreIds(physicsEngine)
       /\ NextEngine
    \/ ClientUntouched /\ NextFeed

SpecMasses == Init /\ [][NextMasses]_vars

(***************************************************************************)
(* C32                                                                    *)
(***************************************************************************)
\* C32: in both engines the radius of every entity is the radius of the mass
\* the entity has: radiusFromMass on the server, calculateRadius on the client.
C32_RadiusIsRadiusOfMass ==
    /\ \A k \in 1..Len(entities) :
          entities[k].radius = radiusFromMass(entities[k].mass)
    /\ \A k \in 1..Len(physicsEngine.entities) :
          physicsEngine.entities[k].radius = calculateRadius(physicsEngine.entities[k].mass)

\* a server entity has eaten: it is heavier than anything addPlayer or a split makes
C32_PredatorGrew ==
    \E k \in 1..Len(entities) :
       /\ entities[k].isAlive
       /\ entities[k].mass > INITIAL_PLAYER_MASS * MassUnit
       /\ \E j \in 1..Len(entities) : entities[j].killedBy = entities[k].id

(***************************************************************************)
(* C33                                                                    *)
(***************************************************************************)
\* the sum of the masses of the entities that are alive
AliveMass(ents) ==
    LET alive == SelectSeq(ents, LAMBDA e : e.isAlive)
    IN SumSeq([k \in 1..Len(alive) |-> alive[k].mass])

\* C33: no step of the collision pass changes the sum of the masses of the
\* entities that are alive, so the pass as a whole conserves it.
C33_CollisionPassConservesMass ==
    [][pc = "collisions" => AliveMass(entities') = AliveMass(entities)]_vars

(***************************************************************************)
(* C34                                                                    *)
(***************************************************************************)
\* C34: between two steps the enqueueAction calls that returned true are as
\* many as stats.actionsProcessed and the length of the queue together.
C34_AcceptedIsProcessedPlusQueued ==
    Idle => Len(accepted) = stats.actionsProcessed + Len(actionQueue)

\* the loop was stopped and started again, a step that the budget cut short has
\* left an action of the tick before in the queue, and one was processed
C34_DeferredAcrossRestart ==
    /\ Idle
    /\ isRunning
    /\ nextTimer > 2
    /\ stats.actionsProcessed > 0
    /\ \E k \in 1..Len(actionQueue) : actionQueue[k].targetTick <= currentTick

(***************************************************************************)
(* SpecLive: the loop, once started, is never stopped.  The interval      *)
(* timer keeps firing, a step that has begun runs to its end, and the     *)
(* budget may cut any drain short.  Steps on an empty queue are counted   *)
(* up to MaxTick; a step on a queue that holds actions is never held back.*)
(***************************************************************************)
LiveActions == {MkAction("input", FirstPlayer, <<1, 0>>), MkAction("split", FirstPlayer, NoDir)}

TimerFires ==
    /\ actionQueue # <<>> \/ currentTick < MaxTick
    /\ StepBegin(MaxTick + MaxEnqueue)

Drain == \E pos \in SpawnOrigin, overBudget \in BOOLEAN : DrainOne(pos, overBudget)

NextLive ==
    \/ \E action \in LiveActions : EnqueueAction(action)
    \/ ~isRunning /\ StartLoop("publishA")
    \/ TimerFires
    \/ Drain
    \/ StepPhases

\* a turn of the drain loop can be taken exactly in these states
DrainEnabled == pc = "drain" /\ actionQueue # <<>>

\* WF_vars(Drain), with ENABLED <<Drain>>_vars written out as DrainEnabled
DrainFair == []<>(~DrainEnabled) \/ []<><<Drain>>_vars

SpecLive ==
    /\ Init
    /\ [][NextLive]_vars
    /\ WF_vars(TimerFires)
    /\ DrainFair
    /\ WF_vars(StepPhases)

(***************************************************************************)
(* C35                                                                    *)
(***************************************************************************)
InSeq(seq, x) == \E k \in 1..Len(seq) : seq[k] = x

\* C35: while the loop runs, every action enqueueAction accepted is in the end
\* handed to processAction, whatever drains the budget cuts short, and every
\* step that has begun its drain runs on to its end.
C35_AcceptedEventuallyApplied ==
    /\ \A uid \in 1..MaxEnqueue :
          (isRunning /\ InSeq(accepted, uid)) ~> InSeq(applied, uid)
    /\ (pc = "drain") ~> Idle

\* a drain has applied an action and the next in line is of an earlier tick too:
\* both were deferred by a cut-off and the first has now been applied
C35_DeferredActionApplied ==
    /\ pc = "drain"
    /\ processedCount >= 1
    /\ actionQueue # <<>>
    /\ QueueTake(actionQueue).targetTick <= currentTick

(***************************************************************************)
(* SpecOrphan: a heavy player splits, half a second later its split       *)
(* button is pressed again, and the clock runs to the moments the         *)
(* records turn mergeable.                                                *)
(***************************************************************************)
OrphanInstants == {T0 + 500, T0 + mergeTime + 1, T0 + 500 + mergeTime + 1}

NextOrphan ==
    \/ \E mass \in MergeMasses : CreatePlayer(FirstPlayer, mass)
    \/ \E time \in OrphanInstants : ClientClock(time)
    \/ HandleSplitInput(FirstPlayer, NoDir)
    \/ Update

SpecOrphan == Init /\ [][NextOrphan]_vars

(***************************************************************************)
(* C36                                                                    *)
(***************************************************************************)
\* the ids performSplit makes: the id of the cell that split, "split", the time
IsSplitCell(id) == Len(id) > 2

\* the entity is listed in the fragment records of a cell that exists
Tracked(id) ==
    \E p \in DOMAIN playerSplits :
       /\ Has(physicsEngine.entities, p)
       /\ \E k \in 1..Len(playerSplits[p]) : playerSplits[p][k].id = id

\* C36: every cell performSplit created that is still in the entity store is
\* listed in the fragment records of a parent that is in the store.
C36_NoOrphanCells ==
    \A k \in 1..Len(physicsEngine.entities) :
       IsSplitCell(physicsEngine.entities[k].id) => Tracked(physicsEngine.entities[k].id)

(***************************************************************************)
(* C37                                                                    *)
(***************************************************************************)
\* the record is old enough for update() to enable its merge
MergeEligible(split) == split.canMerge \/ clientNow - split.createdAt > mergeTime

\* C37: a call of update() has looked at every record: a record that is old
\* enough to merge and is still listed after the call has been flagged
\* canMerge by it, which update() does on the way to the merge attempt.
C37_UpdateExaminesEveryRecord ==
    clientOp.op = "update"
       => \A p \in DOMAIN playerSplits :
             \A k \in 1..Len(playerSplits[p]) :
                MergeEligible(playerSplits[p][k]) => playerSplits[p][k].canMerge

(***************************************************************************)
(* SpecRestart: the loop is started, stopped and started again, each time *)
(* with an update callback, while players join and actions are queued.    *)
(***************************************************************************)
NextRestart ==
    \/ \E action \in ControlActions : EnqueueAction(action)
    \/ \E p \in PlayerIds, pos \in SpawnOrigin : AddPlayer(p, pos)
    \/ \E cb \in Callbacks : StartLoop(cb)
    \/ StopLoop
    \/ StepBegin(MaxTick)
    \/ \E pos \in SpawnOrigin, overBudget \in BOOLEAN : DrainOne(pos, overBudget)
    \/ StepPhases

SpecRestart == Init /\ [][NextRestart]_vars

(***************************************************************************)
(* C38                                                                    *)
(***************************************************************************)
\* the last statement of step() is about to run
StepCompletes == pc = "tick"

SpatialHashGrid_clearAll(spatialGrid) == [grid |-> EmptyMap, entityCells |-> EmptyMap]

GridCall(op, id, spatialGrid) ==
    /\ physicsEngine' = [physicsEngine EXCEPT !.spatialGrid = spatialGrid]
    /\ clientOp' = [op |-> op, id |-> id, ret |-> TRUE]
    /\ UNCHANGED <<playerSplits, lastSplitTime, clientNow>>
    /\ UNCHANGED svars
    /\ UNCHANGED bvars

InsertCall(id, shape) ==
    GridCall("insert", id, SpatialHashGrid_insert(physicsEngine.spatialGrid,
                                                  GridEntity(id, shape)))

UpdateCall(id, shape) ==
    GridCall("update", id, SpatialHashGrid_update(physicsEngine.spatialGrid,
                                                  GridEntity(id, shape)))

RemoveCall(id) ==
    GridCall("remove", id, SpatialHashGrid_remove(physicsEngine.spatialGrid, id))

ClearCall ==
    GridCall("clear", NoId, SpatialHashGrid_clearAll(physicsEngine.spatialGrid))

\* two ids are enough for a cell shared by two entities
GridCallIds == {<<"cell", 1>>, <<"cell", 2>>}

NextGridCalls ==
    \/ \E id \in GridCallIds, shape \in GridShapes : InsertCall(id, shape)
    \/ \E id \in GridCallIds, shape \in GridShapes : UpdateCall(id, shape)
    \/ \E id \in GridCallIds : RemoveCall(id)
    \/ ClearCall

SpecGridCalls == Init /\ [][NextGridCalls]_vars

(***************************************************************************)
(* C39                                                                    *)
(***************************************************************************)
\* the id is in the entity set of the cell
InCellSet(spatialGrid, id, cellKey) ==
    cellKey \in DOMAIN spatialGrid.grid /\ id \in spatialGrid.grid[cellKey]

\* the cell is in the list recorded for the id
InCellList(spatialGrid, id, cellKey) ==
    id \in DOMAIN spatialGrid.entityCells /\ cellKey \in Range(spatialGrid.entityCells[id])

CellKeysOf(spatialGrid) ==
    DOMAIN spatialGrid.grid
    \cup UNION {Range(spatialGrid.entityCells[id]) : id \in DOMAIN spatialGrid.entityCells}

\* C39: grid and entityCells agree (an id is in the set of a cell exactly when
\* the cell is in the list of the id) and the grid keeps no cell with an empty
\* set, after any sequence of insert, update, remove and clear.
C39_GridMapsAgree ==
    LET spatialGrid == physicsEngine.spatialGrid
    IN /\ \A id \in GridCallIds, cellKey \in CellKeysOf(spatialGrid) :
             InCellSet(spatialGrid, id, cellKey) <=> InCellList(spatialGrid, id, cellKey)
       /\ \A cellKey \in DOMAIN spatialGrid.grid : spatialGrid.grid[cellKey] # {}
====
